---- MODULE Spec2Model ----
(***************************************************************************)
(* A model of tools/brcm_bt_debugtool/brcm_bt/brcm_bt.py (class BrcmBt):   *)
(* the HCI send/receive pipeline, the memory access layer and the LMP      *)
(* monitor, together with the controller they talk to.                     *)
(*                                                                         *)
(* Short byte strings (frame headers, opcodes, addresses) are sequences of *)
(* numbers 0..255.  The contents of controller memory are "blobs": a byte  *)
(* string of a known length of which only the 32-bit words the program     *)
(* looks at are kept, each with its byte offset.  Python's None is the     *)
(* empty sequence where a value is optional.  A blocking call with a       *)
(* timeout is two steps: the call succeeds, or it times out.               *)
(***************************************************************************)
EXTENDS Integers, Sequences, FiniteSets, TLC

(***************************************************************************)
(* Bounds of the model                                                     *)
(***************************************************************************)
\* number of sendHciCommand invocations by user threads
MaxCalls == 3
\* the queue_size given to the constructor (bounds the three queues)
QueueSize == 2
\* number of packets the controller sends that answer no command
MaxAsync == 1
\* number of LMP packets the firmware handles while the hooks are installed
MaxSeq == 2
\* len(hooks_code): the size in bytes of the assembled hook functions
HookLen == 128
\* number of times startMonitor starts a monitor thread
MaxMonitors == 1
\* number of monitor threads followed through their phases
MaxThreads == 2
\* number of times connect starts the receive and the send thread
MaxConnects == 2
\* number of commands the controller rejects during a direct call
MaxRejects == 2

(***************************************************************************)
(* Program constants                                                       *)
(***************************************************************************)
\* hci.HCI.HCI_CMD, the UART type byte of a command
HCI_CMD == 1
\* event code of Command Complete
EVT_CMD_COMPLETE == 14
\* vendor opcode Read_RAM
OP_READ_RAM == 64589
\* vendor opcode Write_RAM
OP_WRITE_RAM == 64588
\* the length of a record header of the snoop stream
RECORD_HDR_LEN == 24
\* the largest block one Read_RAM or Write_RAM command carries
MAX_BLOCK == 251
HOOK_BASE_ADDRESS == 882176
DATA_BASE_ADDRESS == 882432
\* number of entries of the capture ring, and the size of one entry
RING_ENTRIES == 32
ENTRY_SIZE == 32
\* the patchram slot patchRom uses
PATCH_SLOT == 113
\* the ROM address the recv hook patches
RECV_PATCH_ADDRESS == 259060
PATCH_VALUE_TABLE == 851968
PATCH_TARGET_TABLE == 3211264
PATCH_ENABLE_BASE == 3211780
\* slot_dwords[3] as patchRom assumes it before enabling the slot
ENABLE_WORD3 == 65535
\* fw.LMP_SEND_PACKET_HOOK, fw.BD_ADDR and the peer address field of the
\* first connection struct: addresses defined in fw.py
LMP_SEND_PACKET_HOOK == 2100000
BD_ADDR == 2100100
CONNECTION_ADDR == 2100200

DATA_LENGTH == RING_ENTRIES * ENTRY_SIZE + 4

\* A 32-bit word is kept as the signed number with the same bits, so that a
\* word with bit 31 set is negative.  MaxInt31 is 0x7FFFFFFF.
MaxInt31 == 2147483647
\* w | (1 << 31), for 0 <= w <= 0x7FFFFFFF
SetBit31(w) == (w - MaxInt31) - 1
\* w & 0x7FFFFFFF
Mask31(w) == IF w < 0 THEN (w + MaxInt31) + 1 ELSE w

\* an opcode the controller never answers with a Command Complete
OpSilent == 255 * 256 + 255
\* an opcode only the phone's own host stack uses (HCI Reset)
OpForeign == 12 * 256 + 3
\* the opcodes user threads send
CallOpcodes == {OP_READ_RAM, OpSilent}

Min(a, b) == IF a < b THEN a ELSE b

(***************************************************************************)
(* pwntools packers on byte strings                                        *)
(***************************************************************************)
p8(n) == <<n % 256>>

p16(n) == <<n % 256, (n \div 256) % 256>>

p32(n) == <<n % 256, (n \div 256) % 256, (n \div 65536) % 256, (n \div 16777216) % 256>>

u16(s) == s[1] + 256 * s[2]

u32(s) == s[1] + 256 * s[2] + 65536 * s[3] + 16777216 * s[4]

\* s[a:b] of Python on a byte string: 0-based, half open, clipped
Slice(s, a, b) ==
    LET hi == Min(b, Len(s))
    IN  IF a >= hi THEN <<>> ELSE [i \in 1..(hi - a) |-> s[a + i]]

(***************************************************************************)
(* Blobs: memory contents                                                  *)
(***************************************************************************)
EmptyBlob == [len |-> 0, w |-> {}]

\* p32(v) as memory content
Word(v) == [len |-> 4, w |-> {<<0, v>>}]

\* u32(b) of a 4-byte blob
WordOf(b) == (CHOOSE p \in b.w : p[1] = 0)[2]

\* b[i:j]
BlobSlice(b, i, j) ==
    LET hi == Min(j, b.len)
    IN  IF i >= hi THEN EmptyBlob
        ELSE [len |-> hi - i,
              w |-> {<<p[1] - i, p[2]>> : p \in {q \in b.w : q[1] >= i /\ q[1] < hi}}]

\* a + b
BlobCat(a, b) ==
    [len |-> a.len + b.len, w |-> a.w \cup {<<p[1] + a.len, p[2]>> : p \in b.w}]

(***************************************************************************)
(* HCI packets as hci.parse_hci_packet returns them                        *)
(***************************************************************************)
\* data: the first four bytes of an event's data; body: the bytes after
\* them.  cmd: <<the response queue of the command this packet answers>>, or
\* <<>>; the program does not see it, the properties read it.
CmdComplete(opcode, status, body, cmd) ==
    [kind |-> "Event", event_code |-> EVT_CMD_COMPLETE,
     data |-> <<1>> \o p16(opcode) \o <<status>>, body |-> body, cmd |-> cmd]

\* the packets the controller sends that answer none of the tool's commands:
\* a Command Status that carries the opcode of Read_RAM, and the Command
\* Complete of a command of the phone's own host stack, whose opcode the tool
\* does not use
AsyncPackets ==
    { [kind |-> "Event", event_code |-> 15, data |-> <<0, 1>> \o p16(OP_READ_RAM),
       body |-> EmptyBlob, cmd |-> <<>>],
      CmdComplete(OpForeign, 0, EmptyBlob, <<>>) }

StackDumpPacket ==
    [kind |-> "StackDump", event_code |-> 255, data |-> <<>>, body |-> EmptyBlob, cmd |-> <<>>]

\* hci.StackDumpReceiver.recvPacket: true when the packet completes a stack dump
StackDumpDetected(pkt) == pkt.kind = "StackDump"

\* a record of which the remote site sent the first n bytes only, n less than
\* the 24 bytes of the header plus the length the header gives
Partial(n) ==
    [kind |-> "Partial", event_code |-> 0, data |-> <<>>,
     body |-> [len |-> n, w |-> {}], cmd |-> <<>>]

\* the number of bytes of a record that arrived, as far as the header loop
\* is concerned: a record sent as a whole has its header
Arrived(pkt) == IF pkt.kind = "Partial" THEN pkt.body.len ELSE RECORD_HDR_LEN

\* the frame without the length that line 240 prepends to the payload
FrameWithoutLength(opcode, hdr, body) ==
    LET plen == Len(hdr) + body.len
    IN  [bytes |-> p8(HCI_CMD) \o p16(opcode) \o p8(plen) \o hdr,
         body |-> body]

\* the frame _sendThreadFunc builds from a task: the bytes up to the end of
\* hdr (the leading bytes of the parameters) and the rest of the parameters
Frame(opcode, hdr, body) ==
    LET plen == Len(hdr) + body.len
        payloadLen == 2 + 1 + plen
    IN  [bytes |-> p8(HCI_CMD) \o p16(payloadLen) \o p16(opcode) \o p8(plen) \o hdr,
         body |-> body]

\* what the controller reads out of a frame
FrameOpcode(f) == u16(Slice(f.bytes, 3, 5))
FrameAddr(f) == u32(Slice(f.bytes, 6, 10))

(***************************************************************************)
(* Controller memory: the 32-bit words the program looks at, by address    *)
(***************************************************************************)
EntryAddr(pos) == DATA_BASE_ADDRESS + 4 + pos * ENTRY_SIZE
PatchValueAddr == PATCH_VALUE_TABLE + PATCH_SLOT * 4
PatchTargetAddr == PATCH_TARGET_TABLE + PATCH_SLOT * 4
PatchEnableAddr == PATCH_ENABLE_BASE + (PATCH_SLOT \div 32) * 4

RingCells == {DATA_BASE_ADDRESS} \cup {EntryAddr(pos) : pos \in 0..(RING_ENTRIES - 1)}

MemCells ==
    {HOOK_BASE_ADDRESS, LMP_SEND_PACKET_HOOK, BD_ADDR, CONNECTION_ADDR,
     PatchValueAddr, PatchTargetAddr, PatchEnableAddr} \cup RingCells

\* what the hook region and the ring hold before the monitor is installed
OrigHooks == 7070
OrigCounter == 5
\* hooks_code and the branch instruction patched into the recv path
HooksCode == 4242
RecvBranch == 4343

\* the controller's Read_RAM: the bytes [addr, addr + n)
CtrlRead(m, addr, n) ==
    [len |-> n,
     w |-> {<<a - addr, m[a]>> : a \in {c \in MemCells : c >= addr /\ c + 4 <= addr + n}}]

\* the controller's Write_RAM: blob b written at addr
CtrlWrite(m, addr, b) ==
    [a \in MemCells |->
        IF \E p \in b.w : addr + p[1] = a
        THEN (CHOOSE p \in b.w : addr + p[1] = a)[2]
        ELSE m[a]]

(***************************************************************************)
(* State                                                                   *)
(***************************************************************************)
Calls == 1..MaxCalls
\* the Queue(1) objects of sendHciCommand: 0 is the monitor thread's current
\* call, -1 stands for a queue whose caller gave up
SlotIds == (-1)..MaxCalls

VARIABLES
    running,              \* self.running
    exit_requested,       \* self.exit_requested
    recvThread,           \* self.recvThread: "none", "alive" or "dead"
    sendThread,           \* self.sendThread: "none", "alive" or "dead"
    recvPc,               \* position of _recvThreadFunc
    sendPc,               \* position of _sendThreadFunc
    task,                 \* the task the send thread took: <<>> or <<task>>
    recvQueue,            \* self.recvQueue
    sendThreadrecvQueue,  \* self.sendThreadrecvQueue
    sendQueue,            \* self.sendQueue
    s_inject,             \* the frames written to the inject socket and not yet executed
    s_snoop,              \* the records the controller sent and the host has not read
    snoopClosed,          \* the remote side closed the snoop socket
    written,              \* the response queues of the commands written so far
    nAsync,               \* number of unsolicited packets sent so far
    mem,                  \* controller memory
    callPc,               \* per user call of sendHciCommand: "idle", "get", "done"
    callOp,               \* the opcode of each call
    slot,                 \* the Queue(1) of each call: <<>> or <<packet>>
    callRet,              \* what each call returned: <<>> (None) or <<packet>>
    observed,             \* the last record the send thread took while waiting
    monitorThread,        \* self.monitorThread: "none" or "set"
    monitor_exit_requested, \* self.monitor_exit_requested
    mon,                  \* _monitorThreadFunc: its position and its locals
    preInstall,           \* hook region and ring as they were when startMonitor was called
    unlogged,             \* bytes received from the snoop socket and not written to the log
    ingress,              \* _recvThreadFunc distributing a record, and what became of the records
    monitors,             \* the monitor threads started, each by the phase it is in
    nMonitors,            \* number of monitor threads started so far
    connects,             \* number of sessions started so far
    fwPending,            \* the firmware hook that counted and has not stored its entry
    userPc                \* the thread that drives the session: "idle", "stopMonitor", "shutdown"

sessionVars == <<running, exit_requested, recvThread, sendThread>>
callVars == <<callPc, callOp, callRet>>
ctrlVars == <<s_snoop, snoopClosed, written, nAsync, mem>>

hciVars == <<running, exit_requested, recvThread, sendThread, recvPc, sendPc, task,
             recvQueue, sendThreadrecvQueue, sendQueue, s_inject, s_snoop,
             snoopClosed, written, nAsync, mem, callPc, callOp, slot, callRet,
             observed>>

monitorVars == <<monitorThread, monitor_exit_requested, mon, preInstall, unlogged, ingress, monitors, nMonitors,
                 connects, fwPending, userPc>>

\* what the pipeline and the controller leave alone when the monitor acts
recvVars == <<recvThread, recvPc, recvQueue>>
sendVars == <<sendThread, sendPc, sendThreadrecvQueue, observed, written>>
socketVars == <<s_snoop, snoopClosed, nAsync>>

vars == <<hciVars, monitorVars>>

\* the cells of the hook region and of the ring
HookCells == {HOOK_BASE_ADDRESS} \cup RingCells

\* the monitor thread before startMonitor; ops: the memory accesses still to
\* make in the current phase, the first one being made.  Read by properties
\* only: clean (when the thread was started the hooks were not in place and
\* no command was on its way), skipped (an access returned None because the
\* session was not running), installed (the accesses of the install have all
\* been made), joins (the session whose threads shutdown joins), delivered
\* (the indices the callback was called with), inOrder
\* (each call had a larger index than the call before it) and once (no call
\* had an index of an earlier call).  Of an access made by a direct call of
\* the memory layer (phase "call"): call (the accesses the call makes), cmds
\* (address and block size of each command sent), resps (status and number
\* of data bytes of each response) and ret (<<the value the access
\* returned>>).  Of the poll that has just ended: from (lastCapturedIndex
\* when the counter was read), fired (the indices of its callback calls, in
\* order), dropped (the counts of its "Dropped packets" warnings); gapsOk:
\* each warning so far stood for indices never delivered, with their number,
\* and no such indices went without a warning
MonNotStarted ==
    [pc |-> "none", phase |-> "none", ops |-> <<>>, byte_counter |-> 0,
     outbuffer |-> EmptyBlob, saved_data_hooks |-> <<>>, saved_data_data |-> <<>>,
     lastCapturedIndex |-> 0, currentCapturedIndex |-> 0, tmp |-> <<>>, data |-> <<>>,
     delivered |-> {}, inOrder |-> TRUE, once |-> TRUE, skipped |-> FALSE,
     clean |-> FALSE, installed |-> FALSE, joins |-> 0,
     call |-> <<>>, cmds |-> <<>>, resps |-> <<>>, ret |-> <<>>,
     from |-> 0, fired |-> <<>>, dropped |-> <<>>, gapsOk |-> TRUE]

\* the monitor threads startMonitor may start
MonitorIds == 1..MaxThreads

\* the monitor threads by their phase, and what startMonitor and stopMonitor
\* did to them:
\*   pc       "none" (not started), "install", "test" (the test of the poll
\*            loop), "poll", "callback", "uninstall", "done"
\*   current  the thread self.monitorThread refers to, 0 for None
\*   stopped  the threads stopMonitor was called for
\*   ignored  the threads that went on polling after stopMonitor was called
\*            for them
MonitorsInit ==
    [pc |-> [t \in MonitorIds |-> "none"], current |-> 0, stopped |-> {}, ignored |-> {}]

\* the receive thread between its steps of distributing a record (lines
\* 190-213), and what became of the records:
\*   n      records received so far; the next one is record n + 1
\*   ids    the numbers of the records in recvQueue, in queue order
\*   got    the numbers of the records recvPacket returned, in order
\*   lost   the numbers of the records whose put on recvQueue raised Queue.Full
\*   flushed  whether recvQueue was found full for the record in hand
\*   alive  what sendThread.isAlive() returned for the record in hand
\*   stale  the numbers of the records put on sendThreadrecvQueue when the send
\*          thread had ended
IngressInit ==
    [n |-> 0, ids |-> <<>>, got |-> <<>>, lost |-> {}, flushed |-> FALSE,
     alive |-> FALSE, stale |-> {}]

InitMem ==
    [a \in MemCells |->
        CASE a = HOOK_BASE_ADDRESS -> OrigHooks
          [] a = DATA_BASE_ADDRESS -> OrigCounter
          [] a = PatchEnableAddr -> ENABLE_WORD3
          [] OTHER -> 0]

\* __init__
Init ==
    /\ running = FALSE
    /\ exit_requested = FALSE
    /\ recvThread = "none"
    /\ sendThread = "none"
    /\ recvPc = "none"
    /\ sendPc = "none"
    /\ task = <<>>
    /\ recvQueue = <<>>
    /\ sendThreadrecvQueue = <<>>
    /\ sendQueue = <<>>
    /\ s_inject = <<>>
    /\ s_snoop = <<>>
    /\ snoopClosed = FALSE
    /\ written = {}
    /\ nAsync = 0
    /\ mem = InitMem
    /\ callPc = [c \in Calls |-> "idle"]
    /\ callOp = [c \in Calls |-> 0]
    /\ slot = [c \in SlotIds |-> <<>>]
    /\ callRet = [c \in Calls |-> <<>>]
    /\ observed = <<>>
    /\ monitorThread = "none"
    /\ monitor_exit_requested = FALSE
    /\ mon = MonNotStarted
    /\ preInstall = [a \in HookCells |-> InitMem[a]]
    /\ unlogged = 0
    /\ ingress = IngressInit
    /\ monitors = MonitorsInit
    /\ nMonitors = 0
    /\ connects = 0
    /\ fwPending = <<>>
    /\ userPc = "idle"

(***************************************************************************)
(* connect: sockets set up, both workers started                           *)
(***************************************************************************)
\* connect from its check of self.running on
Connecting ==
    /\ userPc = "idle"
    /\ ~exit_requested
    /\ ~running
    /\ recvThread' = "alive"
    /\ recvPc' = "hdr"
    /\ sendThread' = "alive"
    /\ sendPc' = "top"
    /\ running' = TRUE
    /\ s_inject' = <<>>
    /\ s_snoop' = <<>>
    /\ snoopClosed' = FALSE
    /\ UNCHANGED <<exit_requested, task, recvQueue, sendThreadrecvQueue, sendQueue,
                   written, nAsync, mem, callVars, slot, observed>>
    /\ connects' = connects + 1
    /\ UNCHANGED <<monitorThread, monitor_exit_requested, mon, preInstall, unlogged, ingress, monitors, nMonitors,
                   fwPending, userPc>>

\* the first connect of the object
Connect ==
    /\ recvThread = "none"
    /\ Connecting

\* connect after a shutdown
Reconnect ==
    /\ recvThread # "none"
    /\ connects < MaxConnects
    /\ Connecting

(***************************************************************************)
(* sendHciCommand, called by user threads                                  *)
(***************************************************************************)
\* the parameters a user thread sends with an opcode
CallParams(opcode) ==
    IF opcode = OP_READ_RAM THEN p32(BD_ADDR) \o p8(6) ELSE <<>>

\* the variant of the put that makes the newest task the next one taken
QueuePutFirst(q, opcode, hdr, body, queue) ==
    <<[opcode |-> opcode, hdr |-> hdr, body |-> body, queue |-> queue]>> \o q

\* self.sendQueue.put((opcode, data, queue), timeout=timeout)
QueuePut(q, opcode, hdr, body, queue) ==
    Append(q, [opcode |-> opcode, hdr |-> hdr, body |-> body, queue |-> queue])

CallPut(c, opcode) ==
    /\ callPc[c] = "idle"
    /\ \A d \in Calls : d < c => callPc[d] # "idle"
    /\ Len(sendQueue) < QueueSize
    /\ sendQueue' = QueuePut(sendQueue, opcode, CallParams(opcode), EmptyBlob, c)
    /\ callPc' = [callPc EXCEPT ![c] = "get"]
    /\ callOp' = [callOp EXCEPT ![c] = opcode]
    /\ UNCHANGED <<sessionVars, recvPc, sendPc, task, recvQueue, sendThreadrecvQueue,
                   s_inject, ctrlVars, slot, callRet, observed>>
    /\ UNCHANGED monitorVars

\* Queue.Full after the timeout: the call returns None
CallPutFull(c) ==
    /\ callPc[c] = "idle"
    /\ \A d \in Calls : d < c => callPc[d] # "idle"
    /\ Len(sendQueue) >= QueueSize
    /\ callPc' = [callPc EXCEPT ![c] = "done"]
    /\ UNCHANGED <<sessionVars, recvPc, sendPc, task, recvQueue, sendThreadrecvQueue,
                   sendQueue, s_inject, ctrlVars, callOp, slot, callRet, observed>>
    /\ UNCHANGED monitorVars

\* return queue.get(timeout=timeout)
CallGet(c) ==
    /\ callPc[c] = "get"
    /\ slot[c] # <<>>
    /\ callRet' = [callRet EXCEPT ![c] = slot[c]]
    /\ slot' = [slot EXCEPT ![c] = <<>>]
    /\ callPc' = [callPc EXCEPT ![c] = "done"]
    /\ UNCHANGED <<sessionVars, recvPc, sendPc, task, recvQueue, sendThreadrecvQueue,
                   sendQueue, s_inject, ctrlVars, callOp, observed>>
    /\ UNCHANGED monitorVars

\* Queue.Empty after the timeout: the call returns None
CallGetTimeout(c) ==
    /\ callPc[c] = "get"
    /\ slot[c] = <<>>
    /\ callPc' = [callPc EXCEPT ![c] = "done"]
    /\ UNCHANGED <<sessionVars, recvPc, sendPc, task, recvQueue, sendThreadrecvQueue,
                   sendQueue, s_inject, ctrlVars, callOp, slot, callRet, observed>>
    /\ UNCHANGED monitorVars

(***************************************************************************)
(* _sendThreadFunc                                                         *)
(***************************************************************************)
\* the flush at the top of the loop: get(block=False) until Queue.Empty
SendFlushNothing(q) == q

SendFlush(q) == <<>>

\* the test a received packet must pass to be the response of the task
SendMatchesAnyComplete(pkt, opcode) ==
    pkt.kind = "Event" /\ pkt.event_code = EVT_CMD_COMPLETE

SendMatches(pkt, opcode) ==
    /\ pkt.kind = "Event"
    /\ pkt.event_code = EVT_CMD_COMPLETE
    /\ Slice(pkt.data, 1, 3) = p16(opcode)

\* records that are still queued when the queue has been flushed, or when
\* a command is written, are marked for the properties
MarkPreFlush(q) == [i \in DOMAIN q |-> [q[i] EXCEPT !.preFlush = TRUE]]
MarkPreWrite(q) == [i \in DOMAIN q |-> [q[i] EXCEPT !.preWrite = TRUE]]

\* while not self.exit_requested: ... flush
SendTop ==
    /\ sendPc = "top"
    /\ IF exit_requested
       THEN /\ sendPc' = "dead"
            /\ sendThread' = "dead"
            /\ UNCHANGED sendThreadrecvQueue
       ELSE /\ sendPc' = "get"
            /\ sendThreadrecvQueue' = MarkPreFlush(SendFlush(sendThreadrecvQueue))
            /\ UNCHANGED sendThread
    /\ UNCHANGED <<running, exit_requested, recvThread, recvPc, task, recvQueue,
                   sendQueue, s_inject, ctrlVars, callVars, slot, observed>>
    /\ UNCHANGED monitorVars

\* task = self.sendQueue.get(timeout=0.5)
SendGet ==
    /\ sendPc = "get"
    /\ sendQueue # <<>>
    /\ task' = <<Head(sendQueue)>>
    /\ sendQueue' = Tail(sendQueue)
    /\ sendPc' = "send"
    /\ UNCHANGED <<sessionVars, recvPc, recvQueue, sendThreadrecvQueue, s_inject,
                   ctrlVars, callVars, slot, observed>>
    /\ UNCHANGED monitorVars

\* Queue.Empty: continue
SendGetEmpty ==
    /\ sendPc = "get"
    /\ sendQueue = <<>>
    /\ sendPc' = "top"
    /\ UNCHANGED <<sessionVars, recvPc, task, recvQueue, sendThreadrecvQueue, sendQueue,
                   s_inject, ctrlVars, callVars, slot, observed>>
    /\ UNCHANGED monitorVars

\* self.s_inject.send(out)
SendWrite ==
    /\ sendPc = "send"
    /\ s_inject' = Append(s_inject,
                          [frame |-> Frame(task[1].opcode, task[1].hdr, task[1].body),
                           queue |-> task[1].queue])
    /\ written' = written \cup {task[1].queue}
    /\ sendThreadrecvQueue' = MarkPreWrite(sendThreadrecvQueue)
    /\ sendPc' = "wait"
    /\ UNCHANGED <<sessionVars, recvPc, task, recvQueue, sendQueue, s_snoop, snoopClosed,
                   nAsync, mem, callVars, slot, observed>>
    /\ UNCHANGED monitorVars

\* packet = self.recvPacket(timeout=0.5) returned a record
SendWaitRecv ==
    /\ sendPc = "wait"
    /\ running
    /\ sendThreadrecvQueue # <<>>
    /\ LET r == Head(sendThreadrecvQueue)
           hit == SendMatches(r.pkt, task[1].opcode)
       IN  /\ sendThreadrecvQueue' = Tail(sendThreadrecvQueue)
           /\ observed' = <<[pkt |-> r.pkt, preWrite |-> r.preWrite,
                             preFlush |-> r.preFlush, taken |-> hit]>>
           /\ IF hit
              THEN /\ slot' = [slot EXCEPT ![task[1].queue] = <<r.pkt>>]
                   /\ sendPc' = "top"
                   /\ task' = <<>>
              ELSE UNCHANGED <<slot, sendPc, task>>
    /\ UNCHANGED <<sessionVars, recvPc, recvQueue, sendQueue, s_inject, ctrlVars, callVars>>
    /\ UNCHANGED monitorVars

\* the inner while sees exit_requested, and then the outer one
SendWaitExit ==
    /\ sendPc = "wait"
    /\ exit_requested
    /\ sendPc' = "dead"
    /\ sendThread' = "dead"
    /\ UNCHANGED <<running, exit_requested, recvThread, recvPc, task, recvQueue,
                   sendThreadrecvQueue, sendQueue, s_inject, ctrlVars, callVars, slot,
                   observed>>
    /\ UNCHANGED monitorVars

\* check_running inside recvPacket sees exit_requested and calls shutdown
SendWaitShutdown ==
    /\ sendPc = "wait"
    /\ exit_requested
    /\ sendPc' = "join"
    /\ UNCHANGED <<sessionVars, recvPc, task, recvQueue, sendThreadrecvQueue, sendQueue,
                   s_inject, ctrlVars, callVars, slot, observed>>
    /\ UNCHANGED monitorVars

\* shutdown on the send thread: recvThread.join() returns, sendThread.join()
\* raises RuntimeError (a thread cannot join itself) and the thread ends
SendJoinSelf ==
    /\ sendPc = "join"
    /\ recvThread = "dead"
    /\ sendPc' = "dead"
    /\ sendThread' = "dead"
    /\ UNCHANGED <<running, exit_requested, recvThread, recvPc, task, recvQueue,
                   sendThreadrecvQueue, sendQueue, s_inject, ctrlVars, callVars, slot,
                   observed>>
    /\ UNCHANGED monitorVars

(***************************************************************************)
(* _recvThreadFunc                                                         *)
(***************************************************************************)
\* the 24-byte record header has been read
RecvHdr ==
    /\ recvPc = "hdr"
    /\ ~exit_requested
    /\ s_snoop # <<>>
    /\ Arrived(Head(s_snoop)) >= RECORD_HDR_LEN
    /\ recvPc' = "data"
    /\ UNCHANGED <<sessionVars, sendPc, task, recvQueue, sendThreadrecvQueue, sendQueue,
                   s_inject, ctrlVars, callVars, slot, observed>>
    /\ UNCHANGED monitorVars

\* if self.recvQueue.full(): flush; self.recvQueue.put(record, block=False)
RecvQueuePut(q, pkt) ==
    IF Len(q) >= QueueSize THEN <<pkt>> ELSE Append(q, pkt)

\* self.sendThreadrecvQueue.put(record, block=False), dropped on Queue.Full
SendRecvQueuePut(q, pkt) ==
    IF Len(q) >= QueueSize
    THEN q
    ELSE Append(q, [pkt |-> pkt, preWrite |-> FALSE, preFlush |-> FALSE])

\* the record data has been read: the record is parsed and distributed
RecvData ==
    /\ recvPc = "data"
    /\ ~exit_requested
    /\ s_snoop # <<>>
    /\ Head(s_snoop).kind # "Partial"
    /\ LET pkt == Head(s_snoop)
       IN  /\ s_snoop' = Tail(s_snoop)
           /\ recvQueue' = RecvQueuePut(recvQueue, pkt)
           /\ sendThreadrecvQueue' =
                 IF sendThread = "alive"
                 THEN SendRecvQueuePut(sendThreadrecvQueue, pkt)
                 ELSE sendThreadrecvQueue
           /\ exit_requested' = (exit_requested \/ StackDumpDetected(pkt))
    /\ recvPc' = "hdr"
    /\ UNCHANGED <<running, recvThread, sendThread, sendPc, task, sendQueue, s_inject,
                   snoopClosed, written, nAsync, mem, callVars, slot, observed>>
    /\ UNCHANGED monitorVars

\* the thread ends: a loop test saw exit_requested, or recv returned no data
\* (the socket was closed by the remote site) and the thread itself set
\* exit_requested
RecvExit ==
    /\ recvPc \in {"hdr", "data"}
    /\ IF exit_requested THEN TRUE ELSE snoopClosed /\ s_snoop = <<>>
    /\ exit_requested' = TRUE
    /\ recvPc' = "dead"
    /\ recvThread' = "dead"
    /\ UNCHANGED <<running, sendThread, sendPc, task, recvQueue, sendThreadrecvQueue,
                   sendQueue, s_inject, ctrlVars, callVars, slot, observed>>
    /\ UNCHANGED monitorVars

(***************************************************************************)
(* The controller and the phone                                            *)
(***************************************************************************)
\* the controller takes the next command off the transport, executes it and
\* sends its Command Complete (it sends none for OpSilent)
CtrlAnswer ==
    /\ s_inject # <<>>
    /\ ~snoopClosed
    /\ s_inject' = Tail(s_inject)
    /\ LET f == Head(s_inject).frame
           k == Head(s_inject).queue
           op == FrameOpcode(f)
       IN  CASE op = OpSilent ->
                     UNCHANGED <<s_snoop, mem>>
             [] op = OP_READ_RAM ->
                     /\ s_snoop' = Append(s_snoop,
                            CmdComplete(op, 0, CtrlRead(mem, FrameAddr(f), f.bytes[11]), <<k>>))
                     /\ UNCHANGED mem
             [] op = OP_WRITE_RAM ->
                     /\ s_snoop' = Append(s_snoop, CmdComplete(op, 0, EmptyBlob, <<k>>))
                     /\ mem' = CtrlWrite(mem, FrameAddr(f), f.body)
             [] OTHER ->
                     /\ s_snoop' = Append(s_snoop, CmdComplete(op, 0, EmptyBlob, <<k>>))
                     /\ UNCHANGED mem
    /\ UNCHANGED <<sessionVars, recvPc, sendPc, task, recvQueue, sendThreadrecvQueue,
                   sendQueue, snoopClosed, written, nAsync, callVars, slot, observed>>
    /\ UNCHANGED monitorVars

\* a packet that answers none of the tool's commands
CtrlAsync(pkt) ==
    /\ nAsync < MaxAsync
    /\ recvThread = "alive"
    /\ ~snoopClosed
    /\ nAsync' = nAsync + 1
    /\ s_snoop' = Append(s_snoop, pkt)
    /\ UNCHANGED <<sessionVars, recvPc, sendPc, task, recvQueue, sendThreadrecvQueue,
                   sendQueue, s_inject, snoopClosed, written, mem, callVars, slot,
                   observed>>
    /\ UNCHANGED monitorVars

\* the remote site closes the snoop socket
SnoopClose ==
    /\ recvThread = "alive"
    /\ ~snoopClosed
    /\ snoopClosed' = TRUE
    /\ UNCHANGED <<sessionVars, recvPc, sendPc, task, recvQueue, sendThreadrecvQueue,
                   sendQueue, s_inject, s_snoop, written, nAsync, mem, callVars, slot,
                   observed>>
    /\ UNCHANGED monitorVars

(***************************************************************************)
(* The send/receive pipeline with user threads calling sendHciCommand      *)
(***************************************************************************)
SendThreadNext ==
    \/ SendTop
    \/ SendGet
    \/ SendGetEmpty
    \/ SendWrite
    \/ SendWaitRecv
    \/ SendWaitExit
    \/ SendWaitShutdown
    \/ SendJoinSelf

\* the remote site closes the snoop socket in the middle of a record, of
\* which n bytes were sent
SnoopTruncate(n) ==
    /\ recvThread = "alive"
    /\ ~snoopClosed
    /\ snoopClosed' = TRUE
    /\ s_snoop' = Append(s_snoop, Partial(n))
    /\ UNCHANGED <<sessionVars, recvPc, sendPc, task, recvQueue, sendThreadrecvQueue,
                   sendQueue, s_inject, written, nAsync, mem, callVars, slot, observed>>
    /\ UNCHANGED monitorVars

\* the header loop or the data loop receives the bytes that arrived of the
\* record, then recv returns no data: exit_requested is set and the thread
\* ends.  A complete header has been written to the log; the bytes of an
\* incomplete header or an incomplete body are not written.
RecvTruncated ==
    /\ recvPc \in {"hdr", "data"}
    /\ ~exit_requested
    /\ s_snoop # <<>>
    /\ Head(s_snoop).kind = "Partial"
    /\ IF recvPc = "hdr"
       THEN /\ Arrived(Head(s_snoop)) < RECORD_HDR_LEN
            /\ unlogged' = unlogged + Arrived(Head(s_snoop))
       ELSE unlogged' = unlogged + Arrived(Head(s_snoop)) - RECORD_HDR_LEN
    /\ s_snoop' = Tail(s_snoop)
    /\ exit_requested' = TRUE
    /\ recvPc' = "dead"
    /\ recvThread' = "dead"
    /\ UNCHANGED <<running, sendThread, sendPc, task, recvQueue, sendThreadrecvQueue,
                   sendQueue, s_inject, snoopClosed, written, nAsync, mem, callVars, slot,
                   observed>>
    /\ UNCHANGED <<monitorThread, monitor_exit_requested, mon, preInstall, ingress,
                   monitors, nMonitors, connects, fwPending, userPc>>

RecvThreadNext ==
    \/ RecvHdr
    \/ RecvData
    \/ RecvExit

Next ==
    \/ Connect
    \/ \E c \in Calls, op \in CallOpcodes : CallPut(c, op)
    \/ \E c \in Calls : CallPutFull(c)
    \/ \E c \in Calls : CallGet(c)
    \/ \E c \in Calls : CallGetTimeout(c)
    \/ SendThreadNext
    \/ RecvThreadNext
    \/ CtrlAnswer
    \/ \E pkt \in AsyncPackets \cup {StackDumpPacket} : CtrlAsync(pkt)
    \/ SnoopClose

Spec == Init /\ [][Next]_vars

\* the same, with a snoop stream that may end in the middle of a record: after
\* 10 bytes, in the header, or after 30 bytes, in the body
LogNext ==
    \/ Next
    \/ \E n \in {10, 30} : SnoopTruncate(n)
    \/ RecvTruncated

LogSpec == Init /\ [][LogNext]_vars

\* the workers are scheduled, and the controller answers what it answers
FairSpec ==
    /\ Spec
    /\ WF_vars(SendThreadNext)
    /\ WF_vars(RecvThreadNext)
    /\ WF_vars(CtrlAnswer)

(***************************************************************************)
(* _monitorThreadFunc: the memory accesses of each phase                   *)
(***************************************************************************)
\* a call of readMem; dst names the local that receives its result
ReadOp(address, length, dst) ==
    [kind |-> "read", address |-> address, length |-> length, data |-> <<>>, dst |-> dst]

\* a call of writeMem; data is <<>> (None) or <<blob>>
WriteOp(address, data) ==
    [kind |-> "write", address |-> address,
     length |-> IF data = <<>> THEN 0 ELSE data[1].len, data |-> data, dst |-> "none"]

\* hooks_code = asm(INJECTED_CODE, vma=HOOK_BASE_ADDRESS)
hooks_code == [len |-> HookLen, w |-> {<<0, HooksCode>>}]

\* patchRom(address, patch): the value table, the target table, the enable word
patchRom(address, patch) ==
    IF patch.len # 4
    THEN <<>>
    ELSE << WriteOp(PatchValueAddr, <<patch>>),
            WriteOp(PatchTargetAddr, <<Word(address \div 4)>>),
            WriteOp(PatchEnableAddr, <<Word(ENABLE_WORD3 + 2 ^ (PATCH_SLOT % 32))>>) >>

\* disableRomPatch(patchIndex): the accesses it makes
disableRomPatch == <<>>

\* "Injecting hooks" up to "Get device's BT address"
InstallOps ==
    << ReadOp(HOOK_BASE_ADDRESS, hooks_code.len, "saved_data_hooks"),
       ReadOp(DATA_BASE_ADDRESS, DATA_LENGTH, "saved_data_data"),
       WriteOp(DATA_BASE_ADDRESS, <<Word(0)>>),
       WriteOp(HOOK_BASE_ADDRESS, <<hooks_code>>),
       WriteOp(LMP_SEND_PACKET_HOOK, <<Word(HOOK_BASE_ADDRESS + 1)>>) >>
    \o patchRom(RECV_PATCH_ADDRESS, Word(RecvBranch))
    \o << ReadOp(BD_ADDR, 6, "deviceAddress") >>

\* the variant of "Removing hooks" that leaves the ring as the hooks left it
UninstallOpsHooksOnly(saved_data_hooks, saved_data_data) ==
    << WriteOp(LMP_SEND_PACKET_HOOK, <<Word(0)>>) >>
    \o disableRomPatch
    \o << WriteOp(HOOK_BASE_ADDRESS, saved_data_hooks) >>

\* "Removing hooks"
UninstallOps(saved_data_hooks, saved_data_data) ==
    << WriteOp(LMP_SEND_PACKET_HOOK, <<Word(0)>>) >>
    \o disableRomPatch
    \o << WriteOp(HOOK_BASE_ADDRESS, saved_data_hooks),
          WriteOp(DATA_BASE_ADDRESS, saved_data_data) >>

\* the read of the ring's counter at the start of a poll
CounterOps == << ReadOp(DATA_BASE_ADDRESS, 4, "currentCapturedIndex") >>

\* the reads of the new ring entries, given the two indices
PollOps(lastCapturedIndex, currentCapturedIndex) ==
    LET currentCapturedPosition == currentCapturedIndex % RING_ENTRIES
        lastCapturedPosition == lastCapturedIndex % RING_ENTRIES
    IN  IF currentCapturedIndex - lastCapturedIndex >= 32
        THEN << ReadOp(DATA_BASE_ADDRESS + 4, 32 * 32, "data") >>
        ELSE IF lastCapturedPosition < currentCapturedPosition
        THEN << ReadOp(DATA_BASE_ADDRESS + 4 + (lastCapturedPosition + 1) * 32,
                       (currentCapturedPosition - lastCapturedPosition) * 32, "data") >>
        ELSE << ReadOp(DATA_BASE_ADDRESS + 4 + (lastCapturedPosition + 1) * 32,
                       (31 - lastCapturedPosition) * 32, "tmp"),
                ReadOp(DATA_BASE_ADDRESS + 4, (currentCapturedPosition + 1) * 32,
                       "data_tmp") >>

\* the read of the peer address of the connection the entries name
ConnectionOps == << ReadOp(CONNECTION_ADDR, 6, "connection_addresses") >>

\* entries = [(u32(data[i:i+4]), ...) for i in range(0, len(data), 32)]: the
\* counter tags of the entries read
Entries(data) ==
    [i \in 1..((data.len + ENTRY_SIZE - 1) \div ENTRY_SIZE) |->
        (CHOOSE p \in data.w : p[1] = (i - 1) * ENTRY_SIZE)[2]]

\* the variant that leaves the entries in the order they were read
EntriesAsRead(entries) == entries

\* the place of entry i in the sorted list: after the entries with a smaller
\* key and after those with the same key that were read before it
SortedPlace(entries, i) ==
    1 + Cardinality({j \in DOMAIN entries :
                        \/ Mask31(entries[j]) < Mask31(entries[i])
                        \/ Mask31(entries[j]) = Mask31(entries[i]) /\ j < i})

\* entries.sort(key=lambda x: x[0] & 0x7FFFFFFF): a stable sort.  The list is
\* bound by the set constructor, so that it is evaluated once, also where the
\* sort is evaluated inside ENABLED.
SortEntries(entries) ==
    CHOOSE sorted \in {[place \in DOMAIN read |->
                           read[CHOOSE i \in DOMAIN read : SortedPlace(read, i) = place]]
                       : read \in {entries}} : TRUE

\* the variant of the warning that counts the entry itself as dropped
DroppedWarningInclusive(index, lastCapturedIndex) ==
    IF index > lastCapturedIndex + 1 THEN <<index - lastCapturedIndex>> ELSE <<>>

\* if index > lastCapturedIndex + 1: log.warn("Dropped %d packets!"): the
\* count logged, if any
DroppedWarning(index, lastCapturedIndex) ==
    IF index > lastCapturedIndex + 1 THEN <<index - lastCapturedIndex - 1>> ELSE <<>>

\* the indices after lastCapturedIndex and before index that were never
\* passed to the callback
Missing(m, index) ==
    {k \in (m.lastCapturedIndex + 1)..(index - 1) : k \notin m.delivered}

\* the body of the for loop over the entries: the callback is called for the
\* entry and lastCapturedIndex follows the entry's index
ForEntry(m, index) ==
    [m EXCEPT !.lastCapturedIndex = index,
              !.delivered = m.delivered \cup {index},
              !.inOrder = m.inOrder /\ (m.delivered = {} \/ index > m.lastCapturedIndex),
              !.once = m.once /\ index \notin m.delivered,
              !.fired = Append(m.fired, index),
              !.dropped = m.dropped \o DroppedWarning(index, m.lastCapturedIndex),
              !.gapsOk = m.gapsOk /\
                  DroppedWarning(index, m.lastCapturedIndex) =
                     IF Missing(m, index) = {} THEN <<>>
                     ELSE <<Cardinality(Missing(m, index))>>]

\* the for loop over the entries.  The monitor's record is bound by the set
\* constructor, so that it is evaluated once for each entry, also where the
\* loop is evaluated inside ENABLED.
RECURSIVE ForEntries(_, _)
ForEntries(m, entries) ==
    IF entries = <<>> THEN m
    ELSE CHOOSE after \in {ForEntries(ForEntry(before, Mask31(Head(entries))),
                                      Tail(entries)) : before \in {m}} : TRUE

Deliver(m) ==
    CHOOSE after \in {[ForEntries(m, entries) EXCEPT !.tmp = <<>>, !.data = <<>>]
                      : entries \in {SortEntries(Entries(m.data[1]))}} : TRUE

\* an uncaught exception ends the thread where it stands
MonCrash(m) == [m EXCEPT !.pc = "crashed"]

\* the monitor after the access at the head of m.ops returned result: <<>>
\* (None) or <<blob>>
MonReturn(m, result) ==
    LET op == Head(m.ops)
        rest == Tail(m.ops)
        \* the statement that receives the result
        got == CASE op.dst = "saved_data_hooks" -> [m EXCEPT !.saved_data_hooks = result]
                 [] op.dst = "saved_data_data" -> [m EXCEPT !.saved_data_data = result]
                 [] op.dst = "currentCapturedIndex" ->
                       IF result = <<>> THEN MonCrash(m)
                       ELSE [m EXCEPT !.currentCapturedIndex = Mask31(WordOf(result[1]))]
                 [] op.dst = "tmp" -> [m EXCEPT !.tmp = result]
                 [] op.dst = "data" ->
                       IF result = <<>> THEN MonCrash(m) ELSE [m EXCEPT !.data = result]
                 [] op.dst = "data_tmp" ->
                       IF result = <<>> \/ m.tmp = <<>> THEN MonCrash(m)
                       ELSE [m EXCEPT !.data = <<BlobCat(result[1], m.tmp[1])>>]
                 [] op.dst = "connection_addresses" ->
                       IF result = <<>> THEN MonCrash(m) ELSE m
                 [] OTHER -> m
    IN  IF got.pc = "crashed" THEN got
        ELSE IF rest # <<>> THEN [got EXCEPT !.ops = rest, !.pc = "op"]
        ELSE CASE m.phase = "install" ->
                    [got EXCEPT !.ops = <<>>, !.pc = "test", !.lastCapturedIndex = 0,
                                !.installed = ~got.skipped]
               [] m.phase = "counter" ->
                    IF got.currentCapturedIndex <= got.lastCapturedIndex
                    THEN [got EXCEPT !.ops = <<>>, !.pc = "test"]
                    ELSE [got EXCEPT !.ops = PollOps(got.lastCapturedIndex,
                                                     got.currentCapturedIndex),
                                     !.phase = "entries", !.pc = "op",
                                     !.from = got.lastCapturedIndex]
               [] m.phase = "entries" ->
                    [got EXCEPT !.ops = ConnectionOps, !.phase = "connections", !.pc = "op"]
               [] m.phase = "connections" ->
                    [Deliver(got) EXCEPT !.ops = <<>>, !.pc = "test"]
               [] m.phase = "call" ->
                    [got EXCEPT !.ops = <<>>, !.pc = "done", !.ret = <<result>>]
               [] OTHER ->
                    [got EXCEPT !.ops = <<>>, !.pc = "done"]

(***************************************************************************)
(* _monitorThreadFunc: the thread                                          *)
(***************************************************************************)
\* while not self.exit_requested and not self.monitor_exit_requested
MonTest ==
    /\ mon.pc = "test"
    /\ mon' = IF exit_requested \/ monitor_exit_requested
              THEN [mon EXCEPT !.phase = "uninstall", !.pc = "op",
                               !.ops = UninstallOps(mon.saved_data_hooks,
                                                    mon.saved_data_data)]
              ELSE [mon EXCEPT !.phase = "counter", !.pc = "op", !.ops = CounterOps,
                               !.from = 0, !.fired = <<>>, !.dropped = <<>>]
    /\ UNCHANGED <<hciVars, monitorThread, monitor_exit_requested, preInstall, unlogged, ingress, monitors, nMonitors, connects,
                   fwPending, userPc>>

\* readMem / writeMem up to their loop: check_running, then the lengths
MonCheckRunning ==
    /\ mon.pc = "op"
    /\ LET op == Head(mon.ops)
       IN  mon' = IF exit_requested
                  THEN [mon EXCEPT !.pc = "shutdown", !.joins = connects]
                  ELSE IF ~running
                  THEN MonReturn([mon EXCEPT !.skipped = TRUE], <<>>)
                  ELSE IF op.kind = "write" /\ op.data = <<>>
                  THEN MonCrash(mon)
                  ELSE IF op.length = 0
                  THEN MonReturn(mon, <<EmptyBlob>>)
                  ELSE [mon EXCEPT !.pc = "put", !.byte_counter = 0,
                                   !.outbuffer = EmptyBlob]
    /\ UNCHANGED <<hciVars, monitorThread, monitor_exit_requested, preInstall, unlogged, ingress, monitors, nMonitors, connects,
                   fwPending, userPc>>

\* shutdown called by check_running on the monitor thread: both joins have
\* returned; the access then returns None because the session is not running
MonShutdown ==
    /\ mon.pc = "shutdown"
    /\ IF mon.joins = connects
       THEN recvThread # "alive" /\ sendThread # "alive"
       ELSE TRUE
    /\ running' = FALSE
    /\ exit_requested' = FALSE
    /\ mon' = MonReturn([mon EXCEPT !.skipped = TRUE, !.joins = 0], <<>>)
    /\ UNCHANGED <<recvVars, sendVars, socketVars, task, sendQueue, s_inject, mem, callVars,
                   slot, monitorThread, monitor_exit_requested, preInstall, unlogged, ingress, monitors, nMonitors, connects,
                   fwPending, userPc>>

\* what a direct call of the memory layer leaves for the properties
Note(m, seq, x) == IF m.phase = "call" THEN Append(seq, x) ELSE seq

\* the variant of blocksize that sends all the bytes left in one command
BlocksizeAll(bytes_left) == bytes_left

\* blocksize = bytes_left; if blocksize > 251: blocksize = 251
Blocksize(bytes_left) == Min(bytes_left, MAX_BLOCK)

\* the loop of readMem / writeMem: sendHciCommand puts the next block
MonPut ==
    /\ mon.pc = "put"
    /\ LET op == Head(mon.ops)
           bytes_left == op.length - mon.byte_counter
           blocksize == Blocksize(bytes_left)
           addr == p32(op.address + mon.byte_counter)
       IN  IF Len(sendQueue) >= QueueSize
           THEN /\ mon' = MonCrash(mon)
                /\ UNCHANGED <<sendQueue, slot>>
           ELSE /\ sendQueue' =
                      IF op.kind = "read"
                      THEN QueuePut(sendQueue, OP_READ_RAM, addr \o p8(blocksize),
                                    EmptyBlob, 0)
                      ELSE QueuePut(sendQueue, OP_WRITE_RAM, addr,
                                    BlobSlice(op.data[1], mon.byte_counter,
                                              mon.byte_counter + blocksize), 0)
                /\ slot' = [slot EXCEPT ![0] = <<>>]
                /\ mon' = [mon EXCEPT !.pc = "get",
                                      !.cmds = Note(mon, mon.cmds,
                                                    <<op.address + mon.byte_counter,
                                                      blocksize>>)]
    /\ UNCHANGED <<sessionVars, recvPc, sendPc, task, recvQueue, sendThreadrecvQueue,
                   s_inject, ctrlVars, callVars, observed, monitorThread,
                   monitor_exit_requested, preInstall, unlogged, ingress, monitors, nMonitors, connects, fwPending, userPc>>

\* sendHciCommand returns the response; the loop of readMem / writeMem goes
\* on.  writeMem formats the status of a failed block with %x, which raises
\* TypeError for a one-character string.
MonGet ==
    /\ mon.pc = "get"
    /\ slot[0] # <<>>
    /\ LET op == Head(mon.ops)
           response == slot[0][1]
           status == response.data[4]
           blocksize == Blocksize(op.length - mon.byte_counter)
           outbuffer == BlobCat(mon.outbuffer, response.body)
           noted == [mon EXCEPT !.resps = Note(mon, mon.resps,
                                               <<status, response.body.len>>)]
           counted == IF op.kind = "read"
                      THEN mon.byte_counter + response.body.len
                      ELSE mon.byte_counter + blocksize
       IN  mon' = IF op.kind = "write" /\ status # 0
                  THEN MonCrash(noted)
                  ELSE IF counted < op.length
                  THEN [noted EXCEPT !.pc = "put", !.byte_counter = counted,
                                     !.outbuffer = IF op.kind = "read" THEN outbuffer
                                                   ELSE EmptyBlob]
                  ELSE MonReturn([noted EXCEPT !.byte_counter = 0, !.outbuffer = EmptyBlob],
                                 IF op.kind = "read" THEN <<outbuffer>> ELSE <<EmptyBlob>>)
    /\ slot' = [slot EXCEPT ![0] = <<>>]
    /\ UNCHANGED <<sessionVars, recvPc, sendPc, task, recvQueue, sendThreadrecvQueue,
                   sendQueue, s_inject, ctrlVars, callVars, observed, monitorThread,
                   monitor_exit_requested, preInstall, unlogged, ingress, monitors, nMonitors, connects, fwPending, userPc>>

\* the response queue of a call that gave up belongs to nobody any more
Abandon(q) ==
    [i \in DOMAIN q |-> IF q[i].queue = 0 THEN [q[i] EXCEPT !.queue = -1] ELSE q[i]]

\* sendHciCommand timed out and returned None: response[3] raises TypeError
MonGetTimeout ==
    /\ mon.pc = "get"
    /\ slot[0] = <<>>
    /\ mon' = MonCrash(mon)
    /\ sendQueue' = Abandon(sendQueue)
    /\ task' = Abandon(task)
    /\ s_inject' = Abandon(s_inject)
    /\ UNCHANGED <<sessionVars, recvPc, sendPc, recvQueue, sendThreadrecvQueue, ctrlVars,
                   callVars, slot, observed, monitorThread, monitor_exit_requested,
                   preInstall, unlogged, ingress, monitors, nMonitors, connects, fwPending, userPc>>

MonitorThreadNext ==
    \/ MonTest
    \/ MonCheckRunning
    \/ MonShutdown
    \/ MonPut
    \/ MonGet
    \/ MonGetTimeout

(***************************************************************************)
(* startMonitor, stopMonitor, shutdown: called by the user's thread        *)
(***************************************************************************)
\* startMonitor returns True: the thread is started
StartMonitor ==
    /\ userPc = "idle"
    /\ nMonitors < MaxMonitors
    /\ ~exit_requested
    /\ running
    /\ monitorThread = "none"
    /\ monitor_exit_requested' = FALSE
    /\ monitorThread' = "set"
    /\ mon' = [MonNotStarted EXCEPT !.pc = "op", !.phase = "install", !.ops = InstallOps,
                                    !.clean = /\ mem[HOOK_BASE_ADDRESS] # HooksCode
                                              /\ sendQueue = <<>>
                                              /\ task = <<>>
                                              /\ s_inject = <<>>]
    /\ preInstall' = [a \in HookCells |-> mem[a]]
    /\ nMonitors' = nMonitors + 1
    /\ UNCHANGED <<hciVars, unlogged, ingress, monitors, connects, fwPending, userPc>>

\* stopMonitor: the flag is set, the caller joins the monitor thread
StopMonitor ==
    /\ userPc = "idle"
    /\ monitorThread = "set"
    /\ monitor_exit_requested' = TRUE
    /\ userPc' = "stopMonitor"
    /\ UNCHANGED <<hciVars, monitorThread, mon, preInstall, unlogged, ingress, monitors, nMonitors, connects, fwPending>>

\* the join returned
StopMonitorJoined ==
    /\ userPc = "stopMonitor"
    /\ mon.pc \in {"done", "crashed"}
    /\ monitorThread' = "none"
    /\ userPc' = "idle"
    /\ UNCHANGED <<hciVars, monitor_exit_requested, mon, preInstall, unlogged, ingress, monitors, nMonitors, connects,
                   fwPending>>

\* shutdown: the flag is set, the caller joins the receive and the send thread
Shutdown ==
    /\ userPc = "idle"
    /\ recvThread # "none"
    /\ exit_requested' = TRUE
    /\ userPc' = "shutdown"
    /\ UNCHANGED <<running, recvVars, sendVars, socketVars, task, sendQueue, s_inject, mem,
                   callVars, slot, monitorThread, monitor_exit_requested, mon, preInstall, unlogged, ingress, monitors,
                   nMonitors, connects, fwPending>>

\* both joins returned: sockets torn down, running and exit_requested reset
ShutdownJoined ==
    /\ userPc = "shutdown"
    /\ recvThread # "alive"
    /\ sendThread # "alive"
    /\ running' = FALSE
    /\ exit_requested' = FALSE
    /\ userPc' = "idle"
    /\ UNCHANGED <<recvVars, sendVars, socketVars, task, sendQueue, s_inject, mem, callVars,
                   slot, monitorThread, monitor_exit_requested, mon, preInstall, unlogged, ingress, monitors,
                   nMonitors, connects,
                   fwPending>>

(***************************************************************************)
(* The firmware: the hook functions, called for each LMP packet            *)
(***************************************************************************)
\* the send path calls the hook through LMP_SEND_PACKET_HOOK
SendHookActive(m) ==
    /\ m[LMP_SEND_PACKET_HOOK] = HOOK_BASE_ADDRESS + 1
    /\ m[HOOK_BASE_ADDRESS] = HooksCode

\* the receive path branches to the hook through the enabled patchram slot
RecvHookActive(m) ==
    /\ m[PatchEnableAddr] = ENABLE_WORD3 + 2 ^ (PATCH_SLOT % 32)
    /\ m[PatchTargetAddr] = RECV_PATCH_ADDRESS \div 4
    /\ m[PatchValueAddr] = RecvBranch
    /\ m[HOOK_BASE_ADDRESS] = HooksCode

\* "inc counter": the hook increments the counter; the entry's tag is the
\* counter, with bit 31 set by hook_send_lmp
FwHookCount(sendFromDevice) ==
    /\ fwPending = <<>>
    /\ IF sendFromDevice THEN SendHookActive(mem) ELSE RecvHookActive(mem)
    /\ Mask31(mem[DATA_BASE_ADDRESS]) < MaxSeq
    /\ LET cnt == mem[DATA_BASE_ADDRESS] + 1
       IN  /\ mem' = [mem EXCEPT ![DATA_BASE_ADDRESS] = cnt]
           /\ fwPending' = <<IF sendFromDevice THEN SetBit31(cnt) ELSE cnt>>
    /\ UNCHANGED <<sessionVars, recvPc, sendPc, task, recvQueue, sendThreadrecvQueue,
                   sendQueue, s_inject, socketVars, written, callVars, slot, observed,
                   monitorThread, monitor_exit_requested, mon, preInstall, unlogged, ingress, monitors, nMonitors, connects,
                   userPc>>

\* "store counter at table entry": entry (cnt & 0x1f) receives the tag.  A
\* hook whose code has been overwritten meanwhile does not store.
FwHookStore ==
    /\ fwPending # <<>>
    /\ mem[HOOK_BASE_ADDRESS] = HooksCode
    /\ mem' = [mem EXCEPT ![EntryAddr(Mask31(fwPending[1]) % RING_ENTRIES)] = fwPending[1]]
    /\ fwPending' = <<>>
    /\ UNCHANGED <<sessionVars, recvPc, sendPc, task, recvQueue, sendThreadrecvQueue,
                   sendQueue, s_inject, socketVars, written, callVars, slot, observed,
                   monitorThread, monitor_exit_requested, mon, preInstall, unlogged, ingress, monitors, nMonitors, connects,
                   userPc>>

(***************************************************************************)
(* The session with the monitor                                            *)
(***************************************************************************)
MonNext ==
    \/ Connect
    \/ StartMonitor
    \/ StopMonitor
    \/ StopMonitorJoined
    \/ MonitorThreadNext
    \/ SendThreadNext
    \/ RecvThreadNext
    \/ CtrlAnswer
    \/ \E sendFromDevice \in BOOLEAN : FwHookCount(sendFromDevice)
    \/ FwHookStore
    \/ SnoopClose

MonSpec == Init /\ [][MonNext]_vars

\* the session with the monitor, shut down and connected again by the user
ExitNext ==
    \/ Connect
    \/ Reconnect
    \/ StartMonitor
    \/ Shutdown
    \/ ShutdownJoined
    \/ MonitorThreadNext
    \/ SendThreadNext
    \/ RecvThreadNext
    \/ CtrlAnswer

ExitSpec == Init /\ [][ExitNext]_vars

\* the threads are scheduled, the controller goes on, and the joins of the
\* user's thread return
FairExitSpec ==
    /\ ExitSpec
    /\ WF_vars(MonitorThreadNext)
    /\ WF_vars(SendThreadNext)
    /\ WF_vars(RecvThreadNext)
    /\ WF_vars(CtrlAnswer)
    /\ WF_vars(ShutdownJoined)

(***************************************************************************)
(* The memory access layer called directly: readMem, writeMem, patchRom    *)
(***************************************************************************)
\* a byte string of n bytes of which the first word is v
Filled(n, v) == [len |-> n, w |-> {<<0, v>>}]

\* the lengths read: none, one byte, a block, a block and a byte, 300 bytes,
\* two blocks and a byte
ReadLengths == {0, 1, MAX_BLOCK, MAX_BLOCK + 1, 300, 2 * MAX_BLOCK + 1}

\* readMem(address, length)
readMem(address, length) == << ReadOp(address, length, "none") >>

\* writeMem(address, data)
writeMem(address, data) == << WriteOp(address, <<data>>) >>

\* the direct calls made: each is the list of the accesses it makes
MemCalls ==
    {readMem(BD_ADDR, n) : n \in ReadLengths}
    \cup {writeMem(CONNECTION_ADDR, Filled(n, RecvBranch)) : n \in {4, 300}}
    \cup {patchRom(RECV_PATCH_ADDRESS, Filled(n, RecvBranch)) : n \in {2, 4}}

\* the status of a command the controller rejects (Command Disallowed)
RejectStatus == 12

\* the enable word of slots 96..127 as the firmware left it: the slots
\* 96..111 in use, as patchRom assumes, or slot 112 in use as well
EnableWords == {ENABLE_WORD3, ENABLE_WORD3 + 2 ^ 16}

\* the user's thread calls readMem, writeMem or patchRom; a patchRom that
\* makes no access has returned False
MemCall(ops) ==
    /\ userPc = "idle"
    /\ mon.pc = "none"
    /\ mon' = IF ops = <<>>
              THEN [MonNotStarted EXCEPT !.pc = "done", !.phase = "call",
                                         !.ret = << <<>> >>]
              ELSE [MonNotStarted EXCEPT !.pc = "op", !.phase = "call", !.ops = ops,
                                         !.call = ops]
    /\ UNCHANGED <<hciVars, monitorThread, monitor_exit_requested, preInstall, unlogged, ingress, monitors,
                   nMonitors, connects, fwPending, userPc>>

\* the controller rejects a Read_RAM or Write_RAM: a Command Complete with a
\* status that is not zero and no data; memory is left alone
CtrlReject ==
    /\ s_inject # <<>>
    /\ ~snoopClosed
    /\ FrameOpcode(Head(s_inject).frame) \in {OP_READ_RAM, OP_WRITE_RAM}
    /\ Cardinality({i \in DOMAIN mon.resps : mon.resps[i][1] # 0}) < MaxRejects
    /\ s_inject' = Tail(s_inject)
    /\ s_snoop' = Append(s_snoop,
                         CmdComplete(FrameOpcode(Head(s_inject).frame), RejectStatus,
                                     EmptyBlob, <<Head(s_inject).queue>>))
    /\ UNCHANGED <<sessionVars, recvPc, sendPc, task, recvQueue, sendThreadrecvQueue,
                   sendQueue, snoopClosed, written, nAsync, mem, callVars, slot, observed>>
    /\ UNCHANGED monitorVars

\* __init__, with a controller whose enable word is one of EnableWords
MemInit ==
    /\ running = FALSE
    /\ exit_requested = FALSE
    /\ recvThread = "none"
    /\ sendThread = "none"
    /\ recvPc = "none"
    /\ sendPc = "none"
    /\ task = <<>>
    /\ recvQueue = <<>>
    /\ sendThreadrecvQueue = <<>>
    /\ sendQueue = <<>>
    /\ s_inject = <<>>
    /\ s_snoop = <<>>
    /\ snoopClosed = FALSE
    /\ written = {}
    /\ nAsync = 0
    /\ \E word \in EnableWords : mem = [InitMem EXCEPT ![PatchEnableAddr] = word]
    /\ callPc = [c \in Calls |-> "idle"]
    /\ callOp = [c \in Calls |-> 0]
    /\ slot = [c \in SlotIds |-> <<>>]
    /\ callRet = [c \in Calls |-> <<>>]
    /\ observed = <<>>
    /\ monitorThread = "none"
    /\ monitor_exit_requested = FALSE
    /\ mon = MonNotStarted
    /\ preInstall = [a \in HookCells |-> InitMem[a]]
    /\ unlogged = 0
    /\ ingress = IngressInit
    /\ monitors = MonitorsInit
    /\ nMonitors = 0
    /\ connects = 0
    /\ fwPending = <<>>
    /\ userPc = "idle"

MemNext ==
    \/ Connect
    \/ \E ops \in MemCalls : MemCall(ops)
    \/ MonCheckRunning
    \/ MonShutdown
    \/ MonPut
    \/ MonGet
    \/ MonGetTimeout
    \/ SendThreadNext
    \/ RecvThreadNext
    \/ CtrlAnswer
    \/ CtrlReject
    \/ SnoopClose

MemSpec == MemInit /\ [][MemNext]_vars

(***************************************************************************)
(* The polling loop of an installed monitor on a ring that has wrapped     *)
(***************************************************************************)
\* the tag the hooks store for packet k: here the device sent the packets
\* with an even number and received the others
TagOf(k) == IF k % 2 = 0 THEN SetBit31(k) ELSE k

\* what ring position pos holds when the hooks have stored the entries of
\* the packets 1..top: the tag of the latest packet stored there, or what was
\* there before the install
RingTag(pos, top) ==
    LET k == top - ((top - pos) % RING_ENTRIES)
    IN  IF k >= 1 THEN TagOf(k) ELSE InitMem[EntryAddr(pos)]

\* controller memory with the hooks installed, the counter at counter and the
\* entries of the packets 1..top stored
InstalledMem(counter, top) ==
    [a \in MemCells |->
        CASE a = HOOK_BASE_ADDRESS -> HooksCode
          [] a = LMP_SEND_PACKET_HOOK -> HOOK_BASE_ADDRESS + 1
          [] a = PatchValueAddr -> RecvBranch
          [] a = PatchTargetAddr -> RECV_PATCH_ADDRESS \div 4
          [] a = PatchEnableAddr -> ENABLE_WORD3 + 2 ^ (PATCH_SLOT % 32)
          [] a = DATA_BASE_ADDRESS -> counter
          [] a \in RingCells \ {DATA_BASE_ADDRESS} ->
                 RingTag((a - DATA_BASE_ADDRESS - 4) \div ENTRY_SIZE, top)
          [] OTHER -> InitMem[a]]

\* the pairs <<lastCapturedIndex, counter>> a poll starts from: the ring
\* wrapped since the last poll, the ring was overrun, no wrap
PollCases ==
    {<<29, 34>>, <<30, 34>>, <<31, 33>>, <<0, 32>>, <<0, 34>>, <<2, 40>>, <<3, 5>>}

\* a connected session whose monitor is in its loop, about to test the exit
\* flags, having delivered the packets 1..last; the hooks have counted the
\* packets 1..counter and, unless the last one is pending, stored them all
PollState(last, counter, pending) ==
    /\ running = TRUE
    /\ exit_requested = FALSE
    /\ recvThread = "alive"
    /\ sendThread = "alive"
    /\ recvPc = "hdr"
    /\ sendPc = "top"
    /\ task = <<>>
    /\ recvQueue = <<>>
    /\ sendThreadrecvQueue = <<>>
    /\ sendQueue = <<>>
    /\ s_inject = <<>>
    /\ s_snoop = <<>>
    /\ snoopClosed = FALSE
    /\ written = {}
    /\ nAsync = 0
    /\ mem = InstalledMem(counter, IF pending THEN counter - 1 ELSE counter)
    /\ callPc = [c \in Calls |-> "idle"]
    /\ callOp = [c \in Calls |-> 0]
    /\ slot = [c \in SlotIds |-> <<>>]
    /\ callRet = [c \in Calls |-> <<>>]
    /\ observed = <<>>
    /\ monitorThread = "set"
    /\ monitor_exit_requested = FALSE
    /\ mon = [MonNotStarted EXCEPT
                 !.pc = "test", !.phase = "counter",
                 !.saved_data_hooks = <<CtrlRead(InitMem, HOOK_BASE_ADDRESS, HookLen)>>,
                 !.saved_data_data = <<CtrlRead(InitMem, DATA_BASE_ADDRESS, DATA_LENGTH)>>,
                 !.lastCapturedIndex = last, !.currentCapturedIndex = last,
                 !.delivered = 1..last, !.clean = TRUE, !.installed = TRUE]
    /\ preInstall = [a \in HookCells |-> InitMem[a]]
    /\ unlogged = 0
    /\ ingress = IngressInit
    /\ monitors = MonitorsInit
    /\ nMonitors = 1
    /\ connects = 1
    /\ fwPending = IF pending THEN <<TagOf(counter)>> ELSE <<>>
    /\ userPc = "idle"

PollInit == \E c \in PollCases : PollState(c[1], c[2], FALSE)

\* the monitor polls; the pipeline carries its commands
PollNext ==
    \/ MonTest
    \/ MonCheckRunning
    \/ MonPut
    \/ MonGet
    \/ SendTop
    \/ SendGet
    \/ SendGetEmpty
    \/ SendWrite
    \/ SendWaitRecv
    \/ RecvHdr
    \/ RecvData
    \/ CtrlAnswer

PollSpec == PollInit /\ [][PollNext]_vars

\* the same, when the hook that counted the last packet has not stored its
\* entry yet
TornInit == \E c \in PollCases : PollState(c[1], c[2], TRUE)

TornNext ==
    \/ PollNext
    \/ FwHookStore

TornSpec == TornInit /\ [][TornNext]_vars

(***************************************************************************)
(* _recvThreadFunc distributing a record, step by step, with a thread that *)
(* calls recvPacket and with shutdown                                      *)
(***************************************************************************)
\* the variant of the test that never finds the queue full
RecvQueueNeverFull(q) == FALSE

\* self.recvQueue.full()
RecvQueueFull(q) == Len(q) >= QueueSize

\* what the steps below leave alone
ingressRest ==
    <<monitorThread, monitor_exit_requested, mon, preInstall, unlogged, monitors,
      nMonitors, connects, fwPending, userPc>>

\* the record data has been read and parsed; if self.recvQueue.full()
RecvFullTest ==
    /\ recvPc = "data"
    /\ ~exit_requested
    /\ s_snoop # <<>>
    /\ Head(s_snoop).kind # "Partial"
    /\ ingress' = [ingress EXCEPT !.n = @ + 1, !.flushed = RecvQueueFull(recvQueue)]
    /\ recvPc' = IF RecvQueueFull(recvQueue) THEN "flush" ELSE "put"
    /\ UNCHANGED <<sessionVars, sendPc, task, recvQueue, sendThreadrecvQueue, sendQueue,
                   s_inject, ctrlVars, callVars, slot, observed, ingressRest>>

\* while True: self.recvQueue.get(block=False)
RecvFlushGet ==
    /\ recvPc = "flush"
    /\ recvQueue # <<>>
    /\ recvQueue' = Tail(recvQueue)
    /\ ingress' = [ingress EXCEPT !.ids = Tail(@)]
    /\ UNCHANGED <<sessionVars, recvPc, sendPc, task, sendThreadrecvQueue, sendQueue,
                   s_inject, ctrlVars, callVars, slot, observed, ingressRest>>

\* except Queue.Empty: pass
RecvFlushEmpty ==
    /\ recvPc = "flush"
    /\ recvQueue = <<>>
    /\ recvPc' = "put"
    /\ UNCHANGED <<sessionVars, sendPc, task, recvQueue, sendThreadrecvQueue, sendQueue,
                   s_inject, ctrlVars, callVars, slot, observed, ingress, ingressRest>>

\* self.recvQueue.put(record, block=False); Queue.Full is logged
RecvPut ==
    /\ recvPc = "put"
    /\ IF Len(recvQueue) >= QueueSize
       THEN /\ ingress' = [ingress EXCEPT !.lost = @ \cup {ingress.n}]
            /\ UNCHANGED recvQueue
       ELSE /\ recvQueue' = Append(recvQueue, Head(s_snoop))
            /\ ingress' = [ingress EXCEPT !.ids = Append(@, ingress.n)]
    /\ recvPc' = "alive"
    /\ UNCHANGED <<sessionVars, sendPc, task, sendThreadrecvQueue, sendQueue,
                   s_inject, ctrlVars, callVars, slot, observed, ingressRest>>

\* if self.sendThread != None and self.sendThread.isAlive()
RecvIsAlive ==
    /\ recvPc = "alive"
    /\ ingress' = [ingress EXCEPT !.alive = (sendThread = "alive")]
    /\ recvPc' = IF sendThread = "alive" THEN "put2" ELSE "dump"
    /\ UNCHANGED <<sessionVars, sendPc, task, recvQueue, sendThreadrecvQueue, sendQueue,
                   s_inject, ctrlVars, callVars, slot, observed, ingressRest>>

\* self.sendThreadrecvQueue.put(record, block=False); Queue.Full is logged
RecvPut2 ==
    /\ recvPc = "put2"
    /\ sendThreadrecvQueue' = SendRecvQueuePut(sendThreadrecvQueue, Head(s_snoop))
    /\ ingress' = [ingress EXCEPT
                      !.stale = IF sendThread = "alive" \/ Len(sendThreadrecvQueue) >= QueueSize
                                THEN @ ELSE @ \cup {ingress.n}]
    /\ recvPc' = "dump"
    /\ UNCHANGED <<sessionVars, sendPc, task, recvQueue, sendQueue,
                   s_inject, ctrlVars, callVars, slot, observed, ingressRest>>

\* if stackDumpReceiver.recvPacket(record[0]): self.exit_requested = True
RecvDump ==
    /\ recvPc = "dump"
    /\ s_snoop' = Tail(s_snoop)
    /\ exit_requested' = (exit_requested \/ StackDumpDetected(Head(s_snoop)))
    /\ recvPc' = "hdr"
    /\ UNCHANGED <<running, recvThread, sendThread, sendPc, task, recvQueue,
                   sendThreadrecvQueue, sendQueue, s_inject, snoopClosed, written, nAsync,
                   mem, callVars, slot, observed, ingress, ingressRest>>

\* recvPacket called by a thread that is not the send thread: check_running,
\* then self.recvQueue.get
UserRecvPacket ==
    /\ running
    /\ ~exit_requested
    /\ recvQueue # <<>>
    /\ recvQueue' = Tail(recvQueue)
    /\ ingress' = [ingress EXCEPT !.ids = Tail(@), !.got = Append(@, Head(ingress.ids))]
    /\ UNCHANGED <<sessionVars, recvPc, sendPc, task, sendThreadrecvQueue, sendQueue,
                   s_inject, ctrlVars, callVars, slot, observed, ingressRest>>

RecvStepsNext ==
    \/ RecvHdr
    \/ RecvFullTest
    \/ RecvFlushGet
    \/ RecvFlushEmpty
    \/ RecvPut
    \/ RecvIsAlive
    \/ RecvPut2
    \/ RecvDump
    \/ RecvExit


\* the Command Complete of a command of the phone's own host stack
ForeignComplete == CmdComplete(OpForeign, 0, EmptyBlob, <<>>)

\* one more packet that answers none of the tool's commands, so that the
\* records outnumber what sendThreadrecvQueue holds while a command waits
CtrlAsyncMore(pkt) ==
    /\ nAsync = MaxAsync
    /\ recvThread = "alive"
    /\ ~snoopClosed
    /\ nAsync' = nAsync + 1
    /\ s_snoop' = Append(s_snoop, pkt)
    /\ UNCHANGED <<sessionVars, recvPc, sendPc, task, recvQueue, sendThreadrecvQueue,
                   sendQueue, s_inject, snoopClosed, written, mem, callVars, slot,
                   observed>>
    /\ UNCHANGED monitorVars

\* the pipeline with the receive thread taken step by step; the user threads
\* send all but one of their commands, each a Read_RAM, and the session is
\* shut down by the user
QueueNext ==
    \/ Connect
    \/ \E c \in Calls : c < MaxCalls /\ CallPut(c, OP_READ_RAM)
    \/ \E c \in Calls : CallGet(c)
    \/ \E c \in Calls : CallGetTimeout(c)
    \/ SendThreadNext
    \/ RecvStepsNext
    \/ UserRecvPacket
    \/ CtrlAnswer
    \/ \E pkt \in {ForeignComplete, StackDumpPacket} : CtrlAsync(pkt)
    \/ CtrlAsyncMore(ForeignComplete)
    \/ Shutdown
    \/ ShutdownJoined

QueueSpec == Init /\ [][QueueNext]_vars

(***************************************************************************)
(* startMonitor and stopMonitor with the monitor threads by their phases   *)
(***************************************************************************)
\* what the steps below leave alone
monitorsRest == <<mon, preInstall, unlogged, ingress, nMonitors, connects, fwPending>>

\* startMonitor returns True: thread t is started
StartThread(t) ==
    /\ userPc = "idle"
    /\ running
    /\ ~exit_requested
    /\ monitorThread = "none"
    /\ monitors.pc[t] = "none"
    /\ \A u \in MonitorIds : u < t => monitors.pc[u] # "none"
    /\ monitor_exit_requested' = FALSE
    /\ monitorThread' = "set"
    /\ monitors' = [monitors EXCEPT !.pc[t] = "install", !.current = t]
    /\ UNCHANGED <<hciVars, monitorsRest, userPc>>

\* stopMonitor called by the user's thread: the flag is set, the caller joins
StopByUser ==
    /\ userPc = "idle"
    /\ monitorThread = "set"
    /\ monitor_exit_requested' = TRUE
    /\ monitors' = [monitors EXCEPT !.stopped = @ \cup {monitors.current}]
    /\ userPc' = "stopMonitor"
    /\ UNCHANGED <<hciVars, monitorsRest, monitorThread>>

\* the join returned: self.monitorThread = None
StopByUserJoined ==
    /\ userPc = "stopMonitor"
    /\ monitors.pc[monitors.current] = "done"
    /\ monitorThread' = "none"
    /\ monitors' = [monitors EXCEPT !.current = 0]
    /\ userPc' = "idle"
    /\ UNCHANGED <<hciVars, monitorsRest, monitor_exit_requested>>

\* stopMonitor called from the callback, on the monitor thread itself: the
\* flag is set, the join is skipped, self.monitorThread = None
StopByCallback(t) ==
    /\ monitors.pc[t] = "callback"
    /\ monitors.current = t
    /\ monitorThread = "set"
    /\ t \notin monitors.stopped
    /\ monitor_exit_requested' = TRUE
    /\ monitorThread' = "none"
    /\ monitors' = [monitors EXCEPT !.current = 0, !.stopped = @ \cup {t}]
    /\ UNCHANGED <<hciVars, monitorsRest, userPc>>

\* the hooks are injected and the poll loop is reached
ThreadInstalled(t) ==
    /\ monitors.pc[t] = "install"
    /\ monitors' = [monitors EXCEPT !.pc[t] = "test"]
    /\ UNCHANGED <<hciVars, monitorsRest, monitorThread, monitor_exit_requested, userPc>>

\* while not self.exit_requested and not self.monitor_exit_requested
ThreadTest(t) ==
    /\ monitors.pc[t] = "test"
    /\ monitors' =
          IF exit_requested \/ monitor_exit_requested
          THEN [monitors EXCEPT !.pc[t] = "uninstall"]
          ELSE [monitors EXCEPT !.pc[t] = "poll",
                                !.ignored = IF t \in monitors.stopped
                                            THEN @ \cup {t} ELSE @]
    /\ UNCHANGED <<hciVars, monitorsRest, monitorThread, monitor_exit_requested, userPc>>

\* the counter and the new entries are read: there are entries to deliver,
\* or none
ThreadPoll(t) ==
    /\ monitors.pc[t] = "poll"
    /\ \E next \in {"callback", "test"} : monitors' = [monitors EXCEPT !.pc[t] = next]
    /\ UNCHANGED <<hciVars, monitorsRest, monitorThread, monitor_exit_requested, userPc>>

\* self.monitorCallback returned for the last entry
ThreadCallbackReturn(t) ==
    /\ monitors.pc[t] = "callback"
    /\ monitors' = [monitors EXCEPT !.pc[t] = "test"]
    /\ UNCHANGED <<hciVars, monitorsRest, monitorThread, monitor_exit_requested, userPc>>

\* the hooks are removed and the saved data restored: the thread ends
ThreadUninstalled(t) ==
    /\ monitors.pc[t] = "uninstall"
    /\ monitors' = [monitors EXCEPT !.pc[t] = "done"]
    /\ UNCHANGED <<hciVars, monitorsRest, monitorThread, monitor_exit_requested, userPc>>

StartStopNext ==
    \/ Connect
    \/ \E t \in MonitorIds : StartThread(t)
    \/ StopByUser
    \/ StopByUserJoined
    \/ \E t \in MonitorIds : StopByCallback(t)
    \/ \E t \in MonitorIds : ThreadInstalled(t)
    \/ \E t \in MonitorIds : ThreadTest(t)
    \/ \E t \in MonitorIds : ThreadPoll(t)
    \/ \E t \in MonitorIds : ThreadCallbackReturn(t)
    \/ \E t \in MonitorIds : ThreadUninstalled(t)

StartStopSpec == Init /\ [][StartStopNext]_vars

(***************************************************************************)
(* Properties of the send/receive pipeline                                 *)
(***************************************************************************)
\* the user call whose task was written as command k
WrittenFor(c) == c \in written
Queued(c) == \E i \in 1..Len(sendQueue) : sendQueue[i].queue = c

\* C1: every value a call of sendHciCommand returns that is not None is the
\* data of a Command Complete event (event code 0x0E) whose bytes [1..3] are
\* the caller's opcode, and the controller sent it for the command written
\* for this very call, not for another call with the same opcode.
C1_CommandCorrelation ==
    \A c \in Calls :
        callRet[c] # <<>> =>
            LET pkt == callRet[c][1]
            IN  /\ pkt.kind = "Event"
                /\ pkt.event_code = EVT_CMD_COMPLETE
                /\ Slice(pkt.data, 1, 3) = p16(callOp[c])
                /\ pkt.cmd = <<c>>

\* two calls with the same opcode both got a response, with an unsolicited
\* packet received in between
C1_Witness ==
    /\ nAsync > 0
    /\ \E c, d \in Calls :
          /\ c # d
          /\ callOp[c] = callOp[d]
          /\ callRet[c] # <<>>
          /\ callRet[d] # <<>>

\* C2: a command that no Command Complete ever answers does not make the
\* session unusable: every later command that the controller would answer
\* and that was accepted into the send queue is written to the inject
\* socket (unless the session exits).
C2_TimeoutRecovery ==
    \A c \in Calls :
        [](Queued(c) /\ callOp[c] # OpSilent => <>(WrittenFor(c) \/ exit_requested))

\* C3 as the specification states it: every record the send thread takes
\* from the secondary queue while it waits for the response to a command
\* was put there after that command was written to the inject socket.
C3_OnlyEventsAfterWrite ==
    observed # <<>> => ~observed[1].preWrite

\* C3, amended: every record the send thread takes from the secondary queue
\* while it waits for a response was put there after the flush at the top of
\* that dispatch (records put between the flush and the write are taken
\* too), and the record taken as the response was put there after the write.
C3_OnlyEventsAfterFlush ==
    observed # <<>> =>
        /\ ~observed[1].preFlush
        /\ observed[1].taken => ~observed[1].preWrite

\* the response to the second command written has been taken
C3_Witness ==
    /\ observed # <<>>
    /\ observed[1].taken
    /\ Cardinality(written) >= 2

(***************************************************************************)
(* Properties of the monitor                                               *)
(***************************************************************************)
Polling == mon.phase \in {"counter", "entries", "connections"}

\* the bytes of a saved region, at the cell a of the region starting at base
SavedAt(saved, base, a) == (CHOOSE p \in saved[1].w : p[1] = a - base)[2]

\* C4: the indices (counter tag & 0x7FFFFFFF) the monitor callback is called
\* with are strictly increasing over the whole run of a monitor, within a
\* poll and from one poll to the next, when the hooks write the counter
\* before the entry.
C4_ReassemblyOrder == mon.inOrder

\* C5: when the hooks run concurrently with the monitor and write the
\* counter before the entry, the callback is never called twice with the
\* same index, and never with an entry the hooks have not written (the hooks
\* write indices from 1 on; an unwritten entry holds what was there before).
C5_NoDuplicateNoStale == mon.once /\ 0 \notin mon.delivered

\* C6: when the monitor thread ends after its loop, entered with the hooks
\* installed, saw exit_requested or monitor_exit_requested, the uninstall
\* steps have been performed:
\* LMP_SEND_PACKET_HOOK is zero and the hook region and the ring hold the
\* saved bytes.
C6_ExitTriggersUninstall ==
    mon.pc = "done" /\ mon.installed =>
        /\ mem[LMP_SEND_PACKET_HOOK] = 0
        /\ mon.saved_data_hooks # <<>>
        /\ mem[HOOK_BASE_ADDRESS] = SavedAt(mon.saved_data_hooks, HOOK_BASE_ADDRESS,
                                            HOOK_BASE_ADDRESS)
        /\ mon.saved_data_data # <<>>
        /\ \A a \in RingCells :
              mem[a] = SavedAt(mon.saved_data_data, DATA_BASE_ADDRESS, a)

\* C7: after a full install/uninstall cycle (startMonitor on a controller
\* without hooks, any number of polls, stopMonitor, the monitor thread ended
\* with none of its accesses skipped) the hook region and the ring hold the
\* bytes they held when startMonitor was called.
C7_HookIdempotence ==
    mon.pc = "done" /\ mon.clean /\ ~mon.skipped =>
        \A a \in HookCells : mem[a] = preInstall[a]

\* a full cycle during which the hooks have written ring entries and the
\* callback has been called
C7_Witness ==
    /\ mon.pc = "done"
    /\ mon.clean
    /\ ~mon.skipped
    /\ mon.delivered # {}
    /\ mem[DATA_BASE_ADDRESS] = OrigCounter
    /\ monitorThread = "none"

\* C8: when the uninstall steps are complete, the patchram slot patchRom
\* enabled for 0x3F3F4 is disabled: its bit in the enable word is clear.
C8_RecvPatchDisabled ==
    mon.pc = "done" /\ ~mon.skipped => mem[PatchEnableAddr] = ENABLE_WORD3

\* C9: a memory access of the polling loop that fails (the command times
\* out, no response) on a session that is running does not end the monitor
\* thread: it stays in its loop.
C9_SurvivesPollingFailure ==
    Polling /\ running /\ ~exit_requested /\ ~mon.skipped /\ ~snoopClosed
        /\ recvThread = "alive" /\ sendThread = "alive"
    => mon.pc # "crashed"

\* C10: once exit_requested is set, every worker that is running then (the
\* receive thread, the send thread, the monitor thread) eventually
\* terminates.
C10_Cancellation ==
    /\ [](exit_requested => <>(recvThread # "alive"))
    /\ [](exit_requested => <>(sendThread # "alive"))
    /\ [](exit_requested => <>(mon.pc \in {"none", "done", "crashed"}))

(***************************************************************************)
(* Properties of the session                                               *)
(***************************************************************************)
\* both sockets are closed: _teardownSockets is called by shutdown only,
\* which resets running in the same breath; connect opens both sockets and
\* sets running
SocketsClosed == ~running

\* the receive thread has passed a stack dump to the stack dump receiver
StackDumpObserved == \E i \in 1..Len(recvQueue) : StackDumpDetected(recvQueue[i])

\* C11: once the receive thread has observed a stack dump in the snoop
\* stream, exit_requested is set and, with no further call by the user, both
\* sockets are eventually closed.
C11_StackDumpClosesSockets ==
    [](StackDumpObserved => exit_requested /\ <>SocketsClosed)

(***************************************************************************)
(* Properties of the memory access layer                                   *)
(***************************************************************************)
\* a direct call of kind "read" or "write" has returned, on a running
\* session
Returned(kind) ==
    /\ mon.phase = "call"
    /\ mon.pc = "done"
    /\ mon.call # <<>>
    /\ mon.call[1].kind = kind
    /\ ~mon.skipped

\* every command of the call was answered with status 0 and as many data
\* bytes as it asked for
AllAnswered ==
    /\ Len(mon.resps) = Len(mon.cmds)
    /\ \A i \in 1..Len(mon.cmds) : mon.resps[i] = <<0, mon.cmds[i][2]>>

\* C12: when every response has status 0 and carries the number of bytes
\* asked for, readMem(a, n) returns exactly n bytes and has sent exactly
\* ceil(n/251) Read_RAM commands, the i-th asking for at most 251 bytes at
\* a + 251*(i-1): consecutive addresses, the last command taking the rest.
C12_ChunkingLaw ==
    Returned("read") /\ AllAnswered =>
        LET a == mon.call[1].address
            n == mon.call[1].length
            k == (n + 250) \div 251
        IN  /\ mon.ret # <<>>
            /\ mon.ret[1] # <<>>
            /\ mon.ret[1][1].len = n
            /\ Len(mon.cmds) = k
            /\ \A i \in 1..k :
                  mon.cmds[i] = <<a + 251 * (i - 1),
                                  IF n - 251 * (i - 1) > 251 THEN 251
                                  ELSE n - 251 * (i - 1)>>

\* readMem(BD_ADDR, 300) has returned 300 bytes after two commands, of 251
\* and 49 bytes
C12_Witness ==
    /\ Returned("read")
    /\ AllAnswered
    /\ mon.call[1].length = 300
    /\ mon.cmds = << <<BD_ADDR, 251>>, <<BD_ADDR + 251, 49>> >>
    /\ mon.ret[1][1].len = 300

\* C13: readMem(a, n) on a running session always returns: n bytes, or what
\* it has read so far.  Whatever the responses are (a status that is not
\* zero with no data, no response within the timeout), it does not end in an
\* exception.
C13_ReadMemReturns ==
    mon.phase = "call" /\ mon.call # <<>> /\ mon.call[1].kind = "read" =>
        mon.pc # "crashed"

\* C14: writeMem sends blocks of at most 251 bytes in ascending address
\* order; as soon as the Command Complete of a block carries a status that is
\* not zero, it returns failure (it does not end in an exception) and no
\* further block is sent.
C14_WriteMemAbortsOnError ==
    /\ mon.phase = "call"
    /\ mon.call # <<>>
    /\ mon.call[1].kind = "write"
    /\ \E i \in 1..Len(mon.resps) : mon.resps[i][1] # 0
    => /\ mon.pc = "done"
       /\ Len(mon.cmds) = Len(mon.resps)
       /\ \A i \in 1..Len(mon.cmds) : mon.cmds[i][2] <= 251

\* C15: a call of the memory layer made while the session is not running is
\* rejected and has no side effect: no command of that call is written to
\* the inject socket, not even after a later connect.
C15_RejectedBeforeConnect ==
    \A c \in Calls : [](~running /\ callPc[c] # "idle" => [](~WrittenFor(c)))

\* C16: each "Dropped packets" warning of the monitor stands for a gap,
\* indices after lastCapturedIndex and before the index delivered next that
\* were never delivered, and its count is their number; a gap gets exactly
\* one warning, and there is no warning without a gap.
C16_GapReporting == mon.gapsOk

\* the entries of the packets 30..34 are stored, at the ring positions 30,
\* 31, 0, 1, 2
Stored30To34 == \A k \in 30..34 : Mask31(mem[EntryAddr(k % RING_ENTRIES)]) = k

\* a poll has just ended that started with lastCapturedIndex = last and read
\* the counter 34
PolledTo34(last) ==
    /\ mon.pc = "test"
    /\ mon.fired # <<>>
    /\ mon.from = last
    /\ mon.currentCapturedIndex = 34

\* C17 as the specification states it: when the ring counter moves from 30
\* to 34 (the monitor has delivered the packets up to 30), with the entries
\* stored at the ring positions 30, 31, 0, 1, 2, the callback is called 5
\* times, with the indices 30, 31, 32, 33, 34 in that order.
C17_WrapFrom30 ==
    PolledTo34(30) /\ Stored30To34 => mon.fired = <<30, 31, 32, 33, 34>>

\* C17, amended: a poll that starts with lastCapturedIndex = 29 and reads
\* the counter 34, the entries of the packets 30..34 being stored at the
\* ring positions 30, 31, 0, 1, 2, calls the callback 5 times, with the
\* indices 30, 31, 32, 33, 34 in that order; a poll that starts with
\* lastCapturedIndex = 30 calls it 4 times, with 31, 32, 33, 34.
C17_WrapScenario ==
    /\ PolledTo34(29) /\ Stored30To34 => mon.fired = <<30, 31, 32, 33, 34>>
    /\ PolledTo34(30) /\ Stored30To34 => mon.fired = <<31, 32, 33, 34>>

\* that poll has ended: five calls, lastCapturedIndex = 34, no warning
C17_Witness ==
    /\ mon.pc = "test"
    /\ mon.from = 29
    /\ mon.currentCapturedIndex = 34
    /\ Len(mon.fired) = 5
    /\ mon.lastCapturedIndex = 34
    /\ mon.dropped = <<>>

\* C18: with capture logging enabled, the bytes written to the log file are
\* the bytes received from the snoop socket, in order: whenever the receive
\* thread is between two reads or has ended, also after a stream that ended
\* in the middle of a record, no byte received is missing from the log.
C18_CaptureLogFidelity == unlogged = 0


\* the bytes on the inject socket of the command of user call c, as far as
\* the end of its parameters
Injected(c) ==
    {s_inject[i].frame.bytes : i \in {j \in 1..Len(s_inject) : s_inject[j].queue = c}}

\* C19 as the specification states it: the bytes of a command on the inject
\* socket are 0x01, the opcode's low byte, its high byte, the parameter
\* length, and the parameters
C19_InjectWireFormat ==
    \A c \in Calls : \A bytes \in Injected(c) :
        bytes = <<1, callOp[c] % 256, callOp[c] \div 256, Len(CallParams(callOp[c]))>>
                \o CallParams(callOp[c])

\* C19, amended: the bytes of a command on the inject socket are 0x01, the
\* two-byte little-endian length of what follows (parameter length + 3), the
\* opcode's low byte, its high byte, the parameter length, and the parameters
C19_InjectWireFormatWithLength ==
    \A c \in Calls : \A bytes \in Injected(c) :
        LET plen == Len(CallParams(callOp[c]))
        IN  bytes = <<1, (plen + 3) % 256, (plen + 3) \div 256,
                      callOp[c] % 256, callOp[c] \div 256, plen>>
                    \o CallParams(callOp[c])

\* a Read_RAM command with its five parameter bytes is on the inject socket
C19_Witness ==
    \E c \in Calls :
        /\ callOp[c] = OP_READ_RAM
        /\ Injected(c) # {}
        /\ \A bytes \in Injected(c) : Len(bytes) = 11


\* bit b of the 32-bit word w: w & (1 << b), b in 0..31
HasBit(w, b) ==
    IF b < 16 THEN (w \div 2 ^ b) % 2 = 1
    ELSE ((w \div 2 ^ 16) \div 2 ^ (b - 16)) % 2 = 1

\* a patchRom whose patch is not 4 bytes long has written nothing: it is the
\* only direct call that makes no access
ShortPatchWritesNothing ==
    mon.phase = "call" /\ mon.call = <<>> =>
        /\ mon.cmds = <<>>
        /\ s_inject = <<>>
        /\ mem[PatchValueAddr] = 0
        /\ mem[PatchTargetAddr] = 0
        /\ ~HasBit(mem[PatchEnableAddr], PATCH_SLOT % 32)

\* once the slot's bit is set in the enable word, the value table holds the
\* patch at 0xD0000 + slot * 4 and the target table holds address >> 2 at
\* 0x310000 + slot * 4; this is for a call of which check_running refused no
\* write (patchRom does not look at what writeMem returns)
EnableAfterTables ==
    HasBit(mem[PatchEnableAddr], PATCH_SLOT % 32) /\ ~mon.skipped =>
        /\ mem[PatchValueAddr] = RecvBranch
        /\ mem[PatchTargetAddr] = RECV_PATCH_ADDRESS \div 4

\* a write of the enable word sets the slot's bit and keeps every bit that
\* was set
EnableKeepsBits ==
    mem'[PatchEnableAddr] # mem[PatchEnableAddr] =>
        /\ HasBit(mem'[PatchEnableAddr], PATCH_SLOT % 32)
        /\ \A b \in 0..31 :
               HasBit(mem[PatchEnableAddr], b) => HasBit(mem'[PatchEnableAddr], b)

\* C20: patchRom(address, patch) with a patch of 4 bytes and slot s writes the
\* patch at 0xD0000 + s * 4, address >> 2 at 0x310000 + s * 4, and the enable
\* word at 0x310204 + (s / 32) * 4 with bit s mod 32 set and all bits kept
\* that were set before; the enable word is written after both table writes;
\* a patch of another length causes no write.
C20_PatchRomEffect ==
    /\ [](ShortPatchWritesNothing /\ EnableAfterTables)
    /\ [][EnableKeepsBits]_vars


\* the receive thread has put, or tried to put, the record in hand on recvQueue
AfterPut == recvPc \in {"alive", "put2", "dump"}

\* a sequence of numbers in strictly increasing order
Increasing(seq) == \A i, j \in DOMAIN seq : i < j => seq[i] < seq[j]

\* C21: recvQueue never holds more than queue_size records; when it is full
\* at ingress the receive thread drains it completely and then enqueues the
\* new record; in every case, also with a thread calling recvPacket at the
\* same time, the new record is enqueued (the put never raises Queue.Full),
\* and recvPacket returns the records in the order of the snoop stream.
C21_PrimaryQueuePolicy ==
    /\ Len(recvQueue) <= QueueSize
    /\ Len(ingress.ids) = Len(recvQueue)
    /\ ingress.lost = {}
    /\ recvPc = "put" /\ ingress.flushed => recvQueue = <<>>
    /\ AfterPut /\ ingress.flushed => \A i \in DOMAIN ingress.ids : ingress.ids[i] = ingress.n
    /\ AfterPut =>
          \/ \E i \in DOMAIN ingress.ids : ingress.ids[i] = ingress.n
          \/ \E i \in DOMAIN ingress.got : ingress.got[i] = ingress.n
    /\ Increasing(ingress.ids)
    /\ Increasing(ingress.got)

\* the queue was found full and drained while another thread took a record
\* from it, and the new record is the only one queued
C21_Witness ==
    /\ recvPc = "alive"
    /\ ingress.flushed
    /\ ingress.ids = <<ingress.n>>
    /\ ingress.got # <<>>
    /\ ingress.n > QueueSize


\* a put on sendThreadrecvQueue that finds it full leaves it as it is
FullPutDrops ==
    recvPc = "put2" /\ recvPc' = "dump" /\ Len(sendThreadrecvQueue) >= QueueSize =>
        sendThreadrecvQueue' = sendThreadrecvQueue

\* records leave sendThreadrecvQueue in a step of the send thread only (its
\* flush, or its recvPacket), and the send thread leaves recvQueue alone
OnlySendThreadDequeues ==
    /\ Len(sendThreadrecvQueue') < Len(sendThreadrecvQueue) =>
          sendPc \in {"top", "wait"} /\ recvQueue' = recvQueue
    /\ sendPc' # sendPc => recvQueue' = recvQueue

\* C22: a received record is put on sendThreadrecvQueue only if the send
\* thread exists and is alive at that moment; when the queue is full the new
\* record is dropped and the queue is left as it is; records are taken from
\* sendThreadrecvQueue by the send thread only, which never takes one from
\* recvQueue.
C22_SecondaryQueuePolicy ==
    /\ [](ingress.stale = {})
    /\ [][FullPutDrops]_vars
    /\ [][OnlySendThreadDequeues]_vars


\* the send thread has seen the Command Complete of the command of call k and
\* has put its data in the call's queue: it is there, or the call has it
Answered(k) ==
    \/ slot[k] # <<>> /\ slot[k][1].cmd = <<k>>
    \/ callRet[k] # <<>> /\ callRet[k][1].cmd = <<k>>

\* commands are written in the order their calls put them in sendQueue (the
\* calls put in the order of their numbers)
WrittenInOrder ==
    \A k \in written' \ written : \A j \in written : j < k

\* a put on the queue of a call finds it empty, and the call has not been
\* given a response before
SlotWrittenOnce ==
    \A k \in Calls :
        slot'[k] # slot[k] /\ slot'[k] # <<>> => slot[k] = <<>> /\ callRet[k] = <<>>

\* C23: commands are written to the inject socket in the order in which they
\* were accepted into sendQueue, and at most one is outstanding: when the
\* send thread is about to take or write the next command, it has seen the
\* Command Complete of every command it wrote; the queue of each call is
\* written at most once, and never when it is full.
C23_SerializedDispatch ==
    /\ [](sendPc \in {"top", "get", "send"} => \A k \in written : Answered(k))
    /\ [][WrittenInOrder]_vars
    /\ [][SlotWrittenOnce]_vars

\* the second command is written, the first has been answered
C23_Witness ==
    /\ sendPc = "wait"
    /\ Cardinality(written) = 2
    /\ \E k \in written : Answered(k) /\ k # task[1].queue
    /\ ~Answered(task[1].queue)


\* the monitor threads between the start of the injection of the hooks and
\* the end of their removal
AliveMonitors ==
    {t \in MonitorIds : monitors.pc[t] \notin {"none", "done"}}

\* C24: under any interleaving of startMonitor and stopMonitor, also with
\* stopMonitor called from the monitor's own callback, at most one monitor
\* thread is alive at any time, and no monitor thread goes on polling after
\* stopMonitor was called for it: a later startMonitor does not cancel the
\* stop request.
C24_SingleMonitor ==
    /\ Cardinality(AliveMonitors) <= 1
    /\ monitors.ignored = {}


\* the sockets are torn down (shutdown resets self.running with it) by the
\* user's thread in shutdown, when the receive and the send thread have ended
TornDownBySession ==
    running /\ ~running' =>
        userPc = "shutdown" /\ recvThread # "alive" /\ sendThread # "alive"

\* C25: neither the monitor thread nor the send thread ever runs shutdown or
\* tears down the sockets; only shutdown called by the user's thread does,
\* after the receive and the send thread have ended.
C25_SocketOwnership ==
    /\ [](mon.pc # "shutdown" /\ sendPc # "join")
    /\ [][TornDownBySession]_vars


\* a poll has just ended that found the counter 32 or more ahead of
\* lastCapturedIndex
PolledOverrun ==
    /\ mon.pc = "test"
    /\ mon.fired # <<>>
    /\ mon.currentCapturedIndex - mon.from >= RING_ENTRIES

\* the whole table was read: the callback was called for its 32 entries, the
\* packets new - 31 .. new, in order
FullTableDelivered ==
    mon.fired = [i \in 1..RING_ENTRIES |-> mon.currentCapturedIndex - RING_ENTRIES + i]

\* C26 as the specification states it: a poll that finds new - last >= 32
\* reads the full table of 32 entries and reports new - last - 1 dropped
\* packets.
C26_OverrunReportsAllButOne ==
    PolledOverrun =>
        /\ FullTableDelivered
        /\ mon.dropped = <<mon.currentCapturedIndex - mon.from - 1>>

\* C26, amended: a poll that finds new - last >= 32, all entries up to new
\* being stored, reads the full table of 32 entries and delivers the packets
\* new - 31 .. new; it reports new - last - 32 dropped packets, in one
\* warning, when new - last > 32, and none when new - last = 32.
C26_OverrunReportsOverwritten ==
    PolledOverrun =>
        /\ FullTableDelivered
        /\ mon.dropped =
              IF mon.currentCapturedIndex - mon.from > RING_ENTRIES
              THEN <<mon.currentCapturedIndex - mon.from - RING_ENTRIES>>
              ELSE <<>>

\* the poll from lastCapturedIndex = 2 to the counter 40 has ended: 32 calls
\* and the warning for the 6 packets 3..8
C26_Witness ==
    /\ PolledOverrun
    /\ mon.from = 2
    /\ mon.currentCapturedIndex = 40
    /\ Len(mon.fired) = RING_ENTRIES
    /\ mon.dropped = <<6>>

====
